---- MODULE Spec2Model ----
(***************************************************************************)
(* Model of the session-scoped world-state machine of The-Moderator        *)
(* (src/server.py): GameSession and the agents it drives.                  *)
(*                                                                         *)
(* Numbers.  econ_power, war_power, trait and relationship values are      *)
(* Python floats; they are modelled in hundredths (0.1 is 10, 1.0 is 100). *)
(* population is the integer the program stores.  random.random() is       *)
(* modelled in percent (a draw r stands for random.random() = r / 100).    *)
(*                                                                         *)
(* Collaborators.  Every llm.invoke call is an input of the operation that *)
(* makes it: either it raises (ok = FALSE) or it returns the parsed JSON   *)
(* the record carries.  Speech synthesis only fills audio_base64, which no *)
(* operation reads; the field is left out.                                 *)
(***************************************************************************)
EXTENDS Integers, Sequences, FiniteSets, TLC

\* ------------------------------------------------------------------------
\* Program constants
\* ------------------------------------------------------------------------
MAX_EVENTS == 3
GenAttempts == 5
NumCountries == 3
PowerMin == 10
PowerMax == 100
RelMin == 0
RelMax == 100
PopMin == 1
EvolveFallbackCycles == 2
EvolveFallbackPercent == 30
DecideFallbackPercent == 40

TRAIT_NAMES == <<"honest", "ambitious", "empathetic", "diplomatic", "ruthless">>

event_types == <<"Minor Incident", "Economic Concern", "Diplomatic Issue">>

Alphabet == <<"A", "B", "C", "D", "E">>

\* A key that a JSON object does not have.
Absent == "<absent>"

\* ------------------------------------------------------------------------
\* Sequence helpers
\* ------------------------------------------------------------------------
Range(s) == {s[i] : i \in DOMAIN s}

\* Python's `x in list`.
InList(x, s) == \E i \in DOMAIN s : s[i] = x

Max2(a, b) == IF a >= b THEN a ELSE b
Min2(a, b) == IF a <= b THEN a ELSE b

\* ------------------------------------------------------------------------
\* str.lower() on the strings the model uses
\* ------------------------------------------------------------------------
LowerWords ==
    {<<"Minor Incident", "minor incident">>,
     <<"Economic Concern", "economic concern">>,
     <<"Diplomatic Issue", "diplomatic issue">>,
     <<"A", "a">>, <<"B", "b">>, <<"C", "c">>, <<"D", "d">>, <<"E", "e">>,
     <<"Coup", "coup">>, <<"COUP", "coup">>}

LowerWord(s) ==
    IF \E p \in LowerWords : p[1] = s
    THEN (CHOOSE p \in LowerWords : p[1] = s)[2]
    ELSE s

FallbackTitle(t, c) == t \o " in Country " \o c

LowerTitles ==
    {<<FallbackTitle(event_types[i], Alphabet[j]),
       LowerWord(event_types[i]) \o " in country " \o LowerWord(Alphabet[j])>> :
        i \in DOMAIN event_types, j \in DOMAIN Alphabet}

Lower(s) ==
    IF \E p \in LowerTitles : p[1] = s
    THEN (CHOOSE p \in LowerTitles : p[1] = s)[2]
    ELSE LowerWord(s)

\* ------------------------------------------------------------------------
\* World generation
\* ------------------------------------------------------------------------
\* rand01: round(random.uniform(0.1, 1.0), 1)
rand01 == {10 * k : k \in 1..10}

\* max(traits.items(), key=lambda x: x[1])[0]: the first trait, in
\* TRAIT_NAMES order, that carries the largest value.
DominantTrait(traits) ==
    LET best == CHOOSE i \in DOMAIN TRAIT_NAMES :
                    /\ \A j \in DOMAIN TRAIT_NAMES :
                          traits[TRAIT_NAMES[j]] <= traits[TRAIT_NAMES[i]]
                    /\ \A j \in 1..(i - 1) :
                          traits[TRAIT_NAMES[j]] < traits[TRAIT_NAMES[i]]
    IN TRAIT_NAMES[best]

\* generate_leader without the except branch: a failed bio call leaves the
\* leader without a backstory.
generate_leader_NoFallbackBio(code, draw) ==
    [code |-> code,
     name |-> "Leader_" \o code,
     age |-> draw.age,
     traits |-> draw.traits,
     econ_power |-> draw.econ,
     war_power |-> draw.war,
     population |-> draw.pop,
     backstory |-> IF draw.bio_ok THEN "bio of Leader_" \o code ELSE Absent]

\* draw: the random draws and the outcome of the bio call.
generate_leader(code, draw) ==
    [code |-> code,
     name |-> "Leader_" \o code,
     age |-> draw.age,
     traits |-> draw.traits,
     econ_power |-> draw.econ,
     war_power |-> draw.war,
     population |-> draw.pop,
     backstory |-> IF draw.bio_ok THEN "bio of Leader_" \o code
                   ELSE "Leader of country " \o code \o ", known for their "
                        \o DominantTrait(draw.traits)
                        \o " approach to governance."]

CodesOf(n) == {Alphabet[i] : i \in 1..n}
CodeSeq(n) == SubSeq(Alphabet, 1, n)
CodeIndex(c) == CHOOSE i \in DOMAIN Alphabet : Alphabet[i] = c

\* WorldState()
WorldState == [countries |-> <<>>, events |-> <<>>, meeting_number |-> 0]

\* random.randint(40, 65) and random.randint(5, 300) * 1_000_000
AgeMin == 40
AgeMax == 65
PopUnitsMin == 5
PopUnitsMax == 300
PopUnit == 1000000

\* init_world without the assignment to relationships[cj][ci].
init_world_OneWay(n, draws, weights) ==
    [countries |->
        [c \in CodesOf(n) |->
            [code |-> c,
             leader |-> generate_leader(c, draws[c]),
             relationships |->
                [d \in {e \in CodesOf(n) : CodeIndex(e) > CodeIndex(c)} |->
                    weights[<<CodeIndex(c), CodeIndex(d)>>]]]],
     events |-> <<>>,
     meeting_number |-> 0]

\* draws: one leader draw per code; weights: one rand01 draw per pair i < j.
init_world(n, draws, weights) ==
    [countries |->
        [c \in CodesOf(n) |->
            [code |-> c,
             leader |-> generate_leader(c, draws[c]),
             relationships |->
                [d \in CodesOf(n) \ {c} |->
                    weights[<<Min2(CodeIndex(c), CodeIndex(d)),
                              Max2(CodeIndex(c), CodeIndex(d))>>]]]],
     events |-> <<>>,
     meeting_number |-> 0]

Pairs(n) == {p \in (1..n) \X (1..n) : p[1] < p[2]}

\* ------------------------------------------------------------------------
\* Events
\* ------------------------------------------------------------------------
Event(eid, title, description, e_type) ==
    [eid |-> eid, title |-> title, description |-> description,
     e_type |-> e_type, cycles_alive |-> 0, resolved |-> FALSE,
     addressed |-> FALSE]

Titles(evs) == [i \in DOMAIN evs |-> evs[i].title]

\* The try block of one attempt of generate_multiple.  resp is the reply of
\* the collaborator: ok = FALSE when invoke or extract_json raises.
\* st = [events, exist].
GenAttempt(st, resp) ==
    IF ~resp.ok THEN st
    ELSE IF /\ Lower(resp.d.title) \notin st.exist
            /\ ~InList(resp.d.title, Titles(st.events))
         THEN [events |-> Append(st.events,
                          Event(resp.d.eid, resp.d.title, resp.d.description,
                                resp.d.e_type)),
               exist |-> st.exist \cup {Lower(resp.d.title)}]
         ELSE st

\* for attempt in range(5): stop once MAX_EVENTS candidates are accepted.
RECURSIVE GenLoop(_, _, _)
GenLoop(st, script, attempt) ==
    IF attempt > GenAttempts \/ Len(st.events) >= MAX_EVENTS THEN st
    ELSE GenLoop(GenAttempt(st, script[attempt]), script, attempt + 1)

\* while len(events) < MAX_EVENTS: append a fallback event.  picks[k] is the
\* k-th pair of random.choice draws <<country, event_type>>.
RECURSIVE FallbackLoop(_, _, _, _)
FallbackLoop(w, events, picks, k) ==
    IF Len(events) >= MAX_EVENTS THEN events
    ELSE LET fid == "E" \o ToString(Len(w.events) + Len(events) + 1)
             c == picks[k][1]
             event_type == picks[k][2]
         IN FallbackLoop(w,
                Append(events,
                       Event(fid, FallbackTitle(event_type, c),
                             "Low-impact " \o LowerWord(event_type) \o ".",
                             "misc")),
                picks, k + 1)

\* The candidates the collaborator attempts leave behind.
GeneratedByLLM(w, script) ==
    GenLoop([events |-> <<>>,
             exist |-> {Lower(w.events[i].title) : i \in DOMAIN w.events}],
            script, 1).events

\* generate_multiple without the fallback loop.
generate_multiple_NoFallback(w, script, picks) == GeneratedByLLM(w, script)

generate_multiple(w, script, picks) ==
    FallbackLoop(w, GeneratedByLLM(w, script), picks, 1)

\* The loop shared by _generate_initial_events and time_skip: append every
\* new event whose title is not yet in world.events, counting it as spawned.
\* st = [events, spawned].
RECURSIVE AppendNew(_, _)
AppendNew(st, new_events) ==
    IF new_events = <<>> THEN st
    ELSE LET event == Head(new_events)
         IN AppendNew(
                IF ~InList(event.title, Titles(st.events))
                THEN [events |-> Append(st.events, event),
                      spawned |-> st.spawned + 1]
                ELSE st,
                Tail(new_events))

\* Python's list.index(x).
IndexOf(s, x) ==
    CHOOSE i \in DOMAIN s : s[i] = x /\ \A j \in 1..(i - 1) : s[j] # x

\* RemoveAt that also drops what follows position p.
RemoveAt_Truncating(s, p) == SubSeq(s, 1, p - 1)

\* del s[p - 1], what list.remove does once it has found the position
RemoveAt(s, p) == SubSeq(s, 1, p - 1) \o SubSeq(s, p + 1, Len(s))

\* evolve whose fallback does not look at the age of the event.
evolve_FallbackAtAnyAge(e, inp) ==
    IF inp.ok
    THEN [e EXCEPT
            !.title = IF inp.d.title = Absent THEN @ ELSE inp.d.title,
            !.description = IF inp.d.description = Absent THEN @
                            ELSE inp.d.description,
            !.resolved = IF inp.d.resolved = Absent THEN @
                         ELSE inp.d.resolved = "true"]
    ELSE IF inp.rnd < EvolveFallbackPercent
         THEN [e EXCEPT !.resolved = TRUE]
         ELSE e

\* EventAgent.evolve.  inp is the reply of the collaborator: ok = FALSE when
\* invoke or extract_json raises, and then rnd is the random.random() draw.
\* inp.d holds the keys title, description, resolved of the returned object,
\* each possibly Absent; resolved is "true" or "false" when present.
evolve(e, inp) ==
    IF inp.ok
    THEN [e EXCEPT
            !.title = IF inp.d.title = Absent THEN @ ELSE inp.d.title,
            !.description = IF inp.d.description = Absent THEN @
                            ELSE inp.d.description,
            !.resolved = IF inp.d.resolved = Absent THEN @
                         ELSE inp.d.resolved = "true"]
    ELSE IF e.cycles_alive > EvolveFallbackCycles
            /\ inp.rnd < EvolveFallbackPercent
         THEN [e EXCEPT !.resolved = TRUE]
         ELSE e

\* Aged without the increment.
Aged_Unchanged(e) == e

\* evt.cycles_alive += 1
Aged(e) == [e EXCEPT !.cycles_alive = @ + 1]

\* The first loop of time_skip.  snapshot is list(self.world.events); cur is
\* self.world.events, each entry tagged with the position its object has in
\* the snapshot (obj), because the loop mutates the objects of the snapshot
\* and list.remove compares by value (dataclass equality).
RECURSIVE EvolveLoop(_, _, _, _)
EvolveLoop(cur, snapshot, inputs, i) ==
    IF i > Len(snapshot) THEN cur
    ELSE LET evt == evolve(Aged(snapshot[i]), inputs[i])
             cur1 == [k \in DOMAIN cur |->
                        IF cur[k].obj = i THEN [obj |-> i, ev |-> evt]
                        ELSE cur[k]]
             evs1 == [k \in DOMAIN cur1 |-> cur1[k].ev]
             cur2 == IF evt.resolved /\ InList(evt, evs1)
                     THEN RemoveAt(cur1, IndexOf(evs1, evt))
                     ELSE cur1
         IN EvolveLoop(cur2, snapshot, inputs, i + 1)

\* The first loop of time_skip without the remove.
Survivors_KeepResolved(events, inputs) ==
    [k \in DOMAIN events |->
        evolve(Aged(events[k]), inputs[k])]

\* world.events after the first loop of time_skip.
Survivors(events, inputs) ==
    LET cur == EvolveLoop([k \in DOMAIN events |-> [obj |-> k, ev |-> events[k]]],
                          events, inputs, 1)
    IN [k \in DOMAIN cur |-> cur[k].ev]

\* ResolutionAgent.decide.  inp.resolved is the "resolved" key of the reply
\* (Absent, "true" or "false"); on a failure rnd is the random draw.
decide(inp) ==
    IF inp.ok THEN inp.resolved = "true"
    ELSE inp.rnd < DecideFallbackPercent

\* ------------------------------------------------------------------------
\* JSON numbers as the collaborator may return them
\* ------------------------------------------------------------------------
Num(v) == [k |-> "num", v |-> v]
NoKey == [k |-> "absent", v |-> 0]
\* a value arithmetic raises on (a string, null, a list)
BadVal == [k |-> "bad", v |-> 0]

\* dict.get(key, 0)
GetOr0(f) == IF f.k = "absent" THEN Num(0) ELSE f

\* The bounds the prompt of the analyzer asks for: 0.15 and 5M.
PromptPowerDelta == 15
PromptPopDelta == 5000000

\* FallbackPower without the scaling by 0.1.
FallbackPower_Unscaled(r) == r - 50

\* (random.random() - 0.5) * 0.1 in hundredths, for a draw of r percent.
\* The draws the model uses are multiples of ten percent, for which the
\* result is a whole number of hundredths.
FallbackPower(r) == (r - 50) \div 10

\* int((random.random() - 0.5) * 1000000) for a draw of r percent.
FallbackPop(r) == (r - 50) * 10000

\* MeetingOutcomeAnalyzer.analyze_meeting_outcomes.  inp.ok = FALSE when
\* invoke or extract_json raises; then inp.noise[c] holds the three
\* random.random() draws of country c, in percent.
analyze_meeting_outcomes(w, inp) ==
    IF inp.ok THEN inp.result
    ELSE [stat_changes |->
            [i \in 1..Cardinality(DOMAIN w.countries) |->
                [key |-> Alphabet[i],
                 changes |->
                    [wellformed |-> TRUE,
                     econ |-> Num(FallbackPower(inp.noise[Alphabet[i]].econ)),
                     war |-> Num(FallbackPower(inp.noise[Alphabet[i]].war)),
                     pop |-> Num(FallbackPop(inp.noise[Alphabet[i]].pop))]]],
          relationship_changes |-> <<>>,
          summary |-> "Mixed diplomatic outcomes with some progress on key issues."]

\* ClampPower without the lower bound.
ClampPower_NoFloor(x) == Min2(PowerMax, x)

\* max(0.1, min(1.0, x))
ClampPower(x) == Max2(PowerMin, Min2(PowerMax, x))

\* max(1, x)
ClampPop(x) == Max2(PopMin, x)

\* max(0.0, min(1.0, x))
ClampRel(x) == Max2(RelMin, Min2(RelMax, x))

\* ApplyStat with every delta added twice.
ApplyStat_Twice(leader, changes) ==
    LET e == GetOr0(changes.econ)
        wa == GetOr0(changes.war)
        p == GetOr0(changes.pop)
    IN [leader |->
            [leader EXCEPT
                !.econ_power = ClampPower(ClampPower(@ + e.v) + e.v),
                !.war_power = ClampPower(ClampPower(@ + wa.v) + wa.v),
                !.population = ClampPop(ClampPop(@ + p.v) + p.v)],
        raised |-> \/ ~changes.wellformed
                   \/ "bad" \in {e.k, wa.k, p.k}]

\* The three assignments of the stat loop for one country.  An ill-typed
\* value raises at its own assignment, after the earlier ones took effect.
\* Returns [leader, raised].
ApplyStat(leader, changes) ==
    LET e == GetOr0(changes.econ)
        wa == GetOr0(changes.war)
        p == GetOr0(changes.pop)
        l1 == [leader EXCEPT !.econ_power = ClampPower(@ + e.v)]
        l2 == [l1 EXCEPT !.war_power = ClampPower(@ + wa.v)]
        l3 == [l2 EXCEPT !.population = ClampPop(@ + p.v)]
    IN IF ~changes.wellformed \/ e.k = "bad" THEN [leader |-> leader, raised |-> TRUE]
       ELSE IF wa.k = "bad" THEN [leader |-> l1, raised |-> TRUE]
       ELSE IF p.k = "bad" THEN [leader |-> l2, raised |-> TRUE]
       ELSE [leader |-> l3, raised |-> FALSE]

\* StatLoop that looks up the country without testing that it exists.
RECURSIVE StatLoop_RaisesOnUnknown(_, _, _)
StatLoop_RaisesOnUnknown(st, stat_changes, i) ==
    IF st.raised \/ i > Len(stat_changes) THEN st
    ELSE LET country_code == stat_changes[i].key
             r == ApplyStat(st.countries[country_code].leader,
                            stat_changes[i].changes)
         IN IF country_code \in DOMAIN st.countries
            THEN StatLoop_RaisesOnUnknown(
                    [countries |->
                        [st.countries EXCEPT ![country_code].leader = r.leader],
                     raised |-> r.raised],
                    stat_changes, i + 1)
            ELSE [st EXCEPT !.raised = TRUE]

\* for country_code, changes in stat_changes.items().  st = [countries, raised].
RECURSIVE StatLoop(_, _, _)
StatLoop(st, stat_changes, i) ==
    IF st.raised \/ i > Len(stat_changes) THEN st
    ELSE LET country_code == stat_changes[i].key
             r == ApplyStat(st.countries[country_code].leader,
                            stat_changes[i].changes)
         IN IF country_code \in DOMAIN st.countries
            THEN StatLoop([countries |->
                              [st.countries EXCEPT ![country_code].leader = r.leader],
                           raised |-> r.raised],
                          stat_changes, i + 1)
            ELSE StatLoop(st, stat_changes, i + 1)

\* ApplyRel with the second assignment forgotten.
ApplyRel_OneSided(countries, ch) ==
    IF /\ ch.a \in DOMAIN countries
       /\ ch.b \in DOMAIN countries[ch.a].relationships
    THEN [countries EXCEPT ![ch.a].relationships[ch.b] =
            Max2(RelMin, Min2(RelMax, @ + ch.delta.v))]
    ELSE countries

\* The body of the relationship loop for one entry [a, b, delta].
ApplyRel(countries, ch) ==
    IF /\ ch.a \in DOMAIN countries
       /\ ch.b \in DOMAIN countries[ch.a].relationships
    THEN LET new_rel == ClampRel(countries[ch.a].relationships[ch.b] + ch.delta.v)
         IN [countries EXCEPT ![ch.a].relationships[ch.b] = new_rel,
                              ![ch.b].relationships[ch.a] = new_rel]
    ELSE countries

\* An entry raises when it does not unpack into three values, or when the
\* guard holds and delta is not a number.
RelRaises(countries, ch) ==
    \/ ~ch.wellformed
    \/ /\ ch.a \in DOMAIN countries
       /\ ch.b \in DOMAIN countries[ch.a].relationships
       /\ ch.delta.k # "num"

\* for a, b, delta in rel_changes.  st = [countries, raised].
RECURSIVE RelLoop(_, _, _)
RelLoop(st, rel_changes, i) ==
    IF st.raised \/ i > Len(rel_changes) THEN st
    ELSE IF RelRaises(st.countries, rel_changes[i])
         THEN [st EXCEPT !.raised = TRUE]
         ELSE RelLoop([st EXCEPT !.countries = ApplyRel(@, rel_changes[i])],
                      rel_changes, i + 1)

\* [e for e in events if e.eid in selected_event_ids], as positions.
RECURSIVE SelectedIdx(_, _, _)
SelectedIdx(events, selected_event_ids, i) ==
    IF i > Len(events) THEN <<>>
    ELSE (IF events[i].eid \in selected_event_ids THEN <<i>> ELSE <<>>)
         \o SelectedIdx(events, selected_event_ids, i + 1)

\* ResolveOne without the cycles_alive guard.
ResolveOne_NoGuard(st, idx, decision) ==
    IF decide(decision)
    THEN [events |-> [st.events EXCEPT ![idx].resolved = TRUE],
          resolved |-> st.resolved + 1]
    ELSE st

\* The body of the resolution loop for one selected event.
\* st = [events, resolved].
ResolveOne(st, idx, decision) ==
    IF decide(decision) /\ st.events[idx].cycles_alive > 0
    THEN [events |-> [st.events EXCEPT ![idx].resolved = TRUE],
          resolved |-> st.resolved + 1]
    ELSE st

RECURSIVE ResolveLoop(_, _, _, _)
ResolveLoop(st, sel, decisions, k) ==
    IF k > Len(sel) THEN st
    ELSE ResolveLoop(ResolveOne(st, sel[k], decisions[k]), sel, decisions, k + 1)

\* ------------------------------------------------------------------------
\* Leader agent
\* ------------------------------------------------------------------------
fallback_responses(dominant_trait) ==
    CASE dominant_trait = "honest" ->
            "We must address these issues with complete transparency."
      [] dominant_trait = "ambitious" ->
            "This is an opportunity for decisive action."
      [] dominant_trait = "empathetic" ->
            "We must consider all those affected by these crises."
      [] dominant_trait = "diplomatic" ->
            "I believe we can find common ground through dialogue."
      [] dominant_trait = "ruthless" ->
            "We will do whatever is necessary to protect our interests."
      [] OTHER -> "We must work together on these challenges."

\* speak with a fallback that ignores the traits of the leader.
speak_IgnoresTrait(memory, leader, inp) ==
    IF inp.ok
    THEN [reply |-> inp.reply,
          memory |-> Append(memory, <<"assistant", inp.reply>>)]
    ELSE [reply |-> fallback_responses(Absent), memory |-> memory]

\* LeaderAgent.speak.  inp.ok = FALSE when invoke raises.
\* Returns [reply, memory].
speak(memory, leader, inp) ==
    IF inp.ok
    THEN [reply |-> inp.reply,
          memory |-> Append(memory, <<"assistant", inp.reply>>)]
    ELSE [reply |-> fallback_responses(DominantTrait(leader.traits)),
          memory |-> memory]

\* ------------------------------------------------------------------------
\* GameSession
\* ------------------------------------------------------------------------
VARIABLES
    world,          \* GameSession.world
    leaders,        \* code -> LeaderAgent.memory
    spawned,        \* GameSession.spawned
    resolved,       \* GameSession.resolved
    transcript,     \* GameSession.transcript
    game_sessions,  \* the session store: session id -> GameSession
    in_flight,      \* server thread -> the request it is working on
    interface,      \* the fields of the TextInterface object
    pc,             \* the statement main() of the console engine is at
    last            \* history: the operation that ran last (see Report)

vars == <<world, leaders, spawned, resolved, transcript, game_sessions, in_flight, interface, pc, last>>

SpawnThreshold == 3

\* game_sessions = {}
NoSessions == <<>>

\* No server thread is working on a request.
NoRequests == <<>>

\* No TextInterface object exists.
NoInterface == <<>>

\* The text interface sent no request.
NothingSent ==
    [route |-> Absent, session_id |-> Absent, selected_event_ids |-> <<>>,
     round_num |-> 0, player_message |-> ""]

\* main() of the console engine is not running.
NotRunning == [at |-> "not running", cycle |-> 0]

\* The fields of a GameSession.  world, leaders, spawned, resolved and
\* transcript hold the session the latest operation ran on.
Self ==
    [world |-> world, leaders |-> leaders, spawned |-> spawned,
     resolved |-> resolved, transcript |-> transcript]

\* What the history records about one operation: its name (op), what it
\* returned (returned), whether an exception left it (raised), the error
\* message of a route that refused the request (error), the session id a
\* route was called with (session_id), the argument of init_world (arg),
\* the event ids the caller selected
\* (selected), whether generate_multiple was called
\* (generated), the resolved flag of each event before and after its evolve
\* call (evolved), what decide returned for each selected event (decided),
\* whether the outcome analysis fell back (analysis_failed), the leaders
\* whose speak call fell back (speak_failed) and, for each leader, the memory
\* its agent held when its speak call of the round began (heard); the
\* verdict final_report printed (verdict); the positions of the events whose
\* evolve call fell back (evolve_failed); the outcomes end_meeting got from
\* the analyzer, also when applying them raised (outcomes); whether
\* Moderator._maybe_spawn of the console engine returned and the active
\* events it left (spawn); the command the text interface ran (command), the
\* request it sent (request), whether the request reached the server
\* (delivered) and whether the interface got a 200 reply (reply_ok).
Report(op) ==
    [op |-> op, returned |-> <<>>, raised |-> FALSE, error |-> Absent,
     arg |-> Absent, session_id |-> Absent, selected |-> {},
     generated |-> FALSE,
     evolved |-> <<>>, decided |-> <<>>, analysis_failed |-> FALSE,
     speak_failed |-> {}, heard |-> <<>>, verdict |-> Absent,
     evolve_failed |-> {}, outcomes |-> Absent,
     spawn |-> [returned |-> FALSE, events |-> <<>>],
     command |-> Absent, request |-> NothingSent, delivered |-> FALSE,
     reply_ok |-> FALSE]

\* GameSession.__init__ with _generate_initial_events.
GameSession(draws, weights, script, picks) ==
    LET w0 == init_world(NumCountries, draws, weights)
        st == AppendNew([events |-> <<>>, spawned |-> 0],
                        generate_multiple(w0, script, picks))
    IN [world |-> [w0 EXCEPT !.events = st.events],
        leaders |-> [c \in DOMAIN w0.countries |-> <<>>],
        spawned |-> st.spawned,
        resolved |-> 0,
        transcript |-> <<>>]

\* The state right after a GameSession was constructed.
NewSession(draws, weights, script, picks) ==
    LET s == GameSession(draws, weights, script, picks)
    IN /\ world = s.world
       /\ leaders = s.leaders
       /\ spawned = s.spawned
       /\ resolved = s.resolved
       /\ transcript = s.transcript
       /\ last = [Report("new_game") EXCEPT !.generated = TRUE]

\* LeaderTurn that also tells the speaker what it said.
LeaderTurn_TellsSpeaker(w, st, code, inp) ==
    LET leader == w.countries[code].leader
        sp == speak(st.leaders[code], leader, inp)
        speech == sp.reply
    IN [leaders |->
            [other_code \in DOMAIN st.leaders |->
                Append(IF other_code # code THEN st.leaders[other_code]
                       ELSE sp.memory,
                       <<"user", leader.name \o " said: " \o speech>>)],
        transcript |-> Append(st.transcript, leader.name \o ": " \o speech),
        responses |-> Append(st.responses,
                        [speaker |-> leader.name \o " ("
                                     \o DominantTrait(leader.traits) \o ")",
                         content |-> speech,
                         type |-> "leader",
                         country |-> code]),
        heard |-> [st.heard EXCEPT ![code] = st.leaders[code]]]

\* One iteration of the "Leaders speak" loop of conduct_round.
\* st = [leaders, transcript, responses, heard]; heard[code] is
\* agent.memory at the call of agent.speak.
LeaderTurn(w, st, code, inp) ==
    LET leader == w.countries[code].leader
        sp == speak(st.leaders[code], leader, inp)
        speech == sp.reply
    IN [leaders |->
            [other_code \in DOMAIN st.leaders |->
                IF other_code # code
                THEN Append(st.leaders[other_code],
                            <<"user", leader.name \o " said: " \o speech>>)
                ELSE sp.memory],
        transcript |-> Append(st.transcript, leader.name \o ": " \o speech),
        responses |-> Append(st.responses,
                        [speaker |-> leader.name \o " ("
                                     \o DominantTrait(leader.traits) \o ")",
                         content |-> speech,
                         type |-> "leader",
                         country |-> code]),
        heard |-> [st.heard EXCEPT ![code] = st.leaders[code]]]

\* LeadersSpeak with the leaders taking their turns in reverse order.
RECURSIVE LeadersSpeak_Reversed(_, _, _, _)
LeadersSpeak_Reversed(w, st, speakIn, i) ==
    IF i > Cardinality(DOMAIN st.leaders) THEN st
    ELSE LeaderTurn(w, LeadersSpeak_Reversed(w, st, speakIn, i + 1),
                    Alphabet[i], speakIn[Alphabet[i]])

\* for code, agent in self.leaders.items(): the turns from the i-th leader on.
RECURSIVE LeadersSpeak(_, _, _, _)
LeadersSpeak(w, st, speakIn, i) ==
    IF i > Cardinality(DOMAIN st.leaders) THEN st
    ELSE LeadersSpeak(w, LeaderTurn(w, st, Alphabet[i], speakIn[Alphabet[i]]),
                      speakIn, i + 1)

\* The "Player message" block of conduct_round; "" and None are falsy.
PlayerTurn(st, player_message) ==
    IF player_message # "" /\ player_message # Absent
    THEN [leaders |-> [c \in DOMAIN st.leaders |->
                          Append(st.leaders[c], <<"user", player_message>>)],
          transcript |-> Append(st.transcript, "PLAYER: " \o player_message),
          responses |-> Append(st.responses,
                          [speaker |-> "UN Secretary-General",
                           content |-> player_message,
                           type |-> "player",
                           country |-> Absent]),
          heard |-> st.heard]
    ELSE st

\* GameSession.conduct_round on session s.  The selected events and the
\* round number only enter the prompt of the collaborator.
\* Returns [session, last].
conduct_round(s, selected_event_ids, round_num, player_message, speakIn) ==
    LET st == PlayerTurn(
                LeadersSpeak(s.world,
                             [leaders |-> s.leaders,
                              transcript |-> s.transcript,
                              responses |-> <<>>,
                              heard |-> [c \in DOMAIN s.leaders |-> <<>>]],
                             speakIn, 1),
                player_message)
    IN [session |-> [s EXCEPT !.leaders = st.leaders,
                              !.transcript = st.transcript],
        last |-> [Report("conduct_round") EXCEPT
                    !.returned = st.responses,
                    !.selected = selected_event_ids,
                    !.speak_failed = {c \in DOMAIN s.leaders : ~speakIn[c].ok},
                    !.heard = st.heard]]

\* "Mark selected events as addressed".
MarkAddressed(events, selected_event_ids) ==
    [i \in DOMAIN events |->
        IF events[i].eid \in selected_event_ids
        THEN [events[i] EXCEPT !.addressed = TRUE]
        ELSE events[i]]

\* self.world.meeting_number += 1
\* CloseMeeting without the increment.
CloseMeeting_NoIncrement(w) == w

CloseMeeting(w) == [w EXCEPT !.meeting_number = @ + 1]

\* GameSession.end_meeting up to the call of the outcome analyzer.
end_meeting_marked(s, selected_event_ids) ==
    [s EXCEPT !.world.events = MarkAddressed(@, selected_event_ids)]

\* GameSession.end_meeting from the reply of the outcome analyzer on, on the
\* session s as it is then.  When applying the outcomes raises, the method is
\* left at that point: what was assigned before stays assigned.
\* Returns [session, last].
end_meeting_applied(s, selected_event_ids, analysis, decisions) ==
    LET ev1 == s.world.events
        outcomes == analyze_meeting_outcomes(s.world, analysis)
        s1 == StatLoop([countries |-> s.world.countries, raised |-> FALSE],
                       outcomes.stat_changes, 1)
        s2 == RelLoop(s1, outcomes.relationship_changes, 1)
        sel == SelectedIdx(ev1, selected_event_ids, 1)
        r == ResolveLoop([events |-> ev1, resolved |-> s.resolved],
                         sel, decisions, 1)
        rep == [Report("end_meeting") EXCEPT
                    !.selected = selected_event_ids,
                    !.analysis_failed = ~analysis.ok,
                    !.outcomes = outcomes]
    IN IF s2.raised
       THEN [session |-> [s EXCEPT !.world.countries = s2.countries,
                                   !.world.events = ev1],
             last |-> [rep EXCEPT !.raised = TRUE]]
       ELSE [session |->
                [s EXCEPT !.world = CloseMeeting(
                                        [@ EXCEPT !.countries = s2.countries,
                                                  !.events = r.events]),
                          !.resolved = r.resolved,
                          !.transcript = <<>>],
             last |->
                [rep EXCEPT
                    !.decided = [k \in 1..Len(sel) |->
                                   [cycles_alive |-> ev1[sel[k]].cycles_alive,
                                    decision |-> decide(decisions[k])]],
                    !.returned = outcomes]]

\* GameSession.end_meeting on session s.  Returns [session, last].
end_meeting(s, selected_event_ids, analysis, decisions) ==
    end_meeting_applied(end_meeting_marked(s, selected_event_ids),
                        selected_event_ids, analysis, decisions)

\* For each event of the snapshot, its resolved flag before and after the
\* evolve call of time_skip.
EvolveLog(events, inputs) ==
    [i \in DOMAIN events |->
        [before |-> events[i].resolved,
         after |-> evolve(Aged(events[i]), inputs[i]).resolved]]

\* ResetAddressed without the assignment.
ResetAddressed_Skipped(events) == events

\* "Reset addressed status".
ResetAddressed(events) ==
    [i \in DOMAIN events |-> [events[i] EXCEPT !.addressed = FALSE]]

\* "Generate new events if needed".  Returns [events, spawned].
Respawn(w, count, script, picks) ==
    IF Len(w.events) < SpawnThreshold
    THEN AppendNew([events |-> w.events, spawned |-> count],
                   generate_multiple(w, script, picks))
    ELSE [events |-> w.events, spawned |-> count]

\* GameSession.time_skip on session s.  Returns [session, last].
time_skip(s, evolveIn, script, picks) ==
    LET w1 == [s.world EXCEPT !.events = Survivors(s.world.events, evolveIn)]
        st == Respawn(w1, s.spawned, script, picks)
    IN [session |-> [s EXCEPT !.world = [w1 EXCEPT !.events =
                                            ResetAddressed(st.events)],
                              !.spawned = st.spawned],
        last |-> [Report("time_skip") EXCEPT
                    !.generated = Len(w1.events) < SpawnThreshold,
                    !.evolved = EvolveLog(s.world.events, evolveIn),
                    !.evolve_failed = {i \in DOMAIN s.world.events :
                                          ~evolveIn[i].ok}]]

\* GameSession.get_world_state: a copy of the world, nothing is assigned.
get_world_state(s) ==
    [countries |-> s.world.countries,
     events |-> s.world.events,
     meeting_number |-> s.world.meeting_number]

\* The session and the history take the values r = [session, last] carries.
Becomes(r) ==
    /\ world' = r.session.world
    /\ leaders' = r.session.leaders
    /\ spawned' = r.session.spawned
    /\ resolved' = r.session.resolved
    /\ transcript' = r.session.transcript
    /\ last' = r.last

\* The methods called on the session the variables hold.
GetWorldState ==
    Becomes([session |-> Self,
             last |-> [Report("get_world_state") EXCEPT
                          !.returned = get_world_state(Self)]])

ConductRound(selected_event_ids, round_num, player_message, speakIn) ==
    Becomes(conduct_round(Self, selected_event_ids, round_num,
                          player_message, speakIn))

EndMeeting(selected_event_ids, analysis, decisions) ==
    Becomes(end_meeting(Self, selected_event_ids, analysis, decisions))

TimeSkip(evolveIn, script, picks) ==
    Becomes(time_skip(Self, evolveIn, script, picks))

\* ------------------------------------------------------------------------
\* API routes over the session store
\* ------------------------------------------------------------------------
\* The session and the history hold the values of s and rep.
Holds(s, rep) ==
    /\ world = s.world
    /\ leaders = s.leaders
    /\ spawned = s.spawned
    /\ resolved = s.resolved
    /\ transcript = s.transcript
    /\ last = rep

\* Store that assigns the session under every id.
Store_Everywhere(store, session_id, session) ==
    [id \in DOMAIN store \cup {session_id} |-> session]

\* game_sessions[session_id] = session
Store(store, session_id, session) ==
    [id \in DOMAIN store \cup {session_id} |->
        IF id = session_id THEN session ELSE store[id]]

\* str(int(time.time() * 1000)) for a clock reading in milliseconds
SessionIdAt(clock) == ToString(clock)

\* refuse that empties the store.
refuse_DropsSessions(store, op, session_id) ==
    [store |-> NoSessions,
     last |-> [Report(op) EXCEPT !.error = "Invalid session",
                                 !.session_id = session_id]]

\* if session_id not in game_sessions: return {"error": "Invalid session"}, 400
\* Returns [store, last].
refuse(store, op, session_id) ==
    [store |-> store,
     last |-> [Report(op) EXCEPT !.error = "Invalid session",
                                 !.session_id = session_id]]

\* A route answers 400: no session is touched.
Refused(op, session_id) ==
    LET r == refuse(game_sessions, op, session_id)
    IN /\ game_sessions' = r.store
       /\ Becomes([session |-> Self, last |-> r.last])

\* A route ran a method on game_sessions[session_id]; the method mutates the
\* stored object in place, also when it raises.
Served(session_id, r) ==
    /\ game_sessions' = Store(game_sessions, session_id, r.session)
    /\ Becomes([session |-> r.session,
                last |-> [r.last EXCEPT !.session_id = session_id]])

\* POST /api/new-game at the given clock reading.
api_new_game(clock, draws, weights, script, picks) ==
    Served(SessionIdAt(clock),
           [session |-> GameSession(draws, weights, script, picks),
            last |-> [Report("new_game") EXCEPT !.generated = TRUE]])

\* POST /api/conduct-round
api_conduct_round(session_id, selected_event_ids, round_num, player_message, speakIn) ==
    IF session_id \notin DOMAIN game_sessions
    THEN Refused("conduct_round", session_id)
    ELSE Served(session_id,
                conduct_round(game_sessions[session_id], selected_event_ids,
                              round_num, player_message, speakIn))

\* POST /api/end-meeting
api_end_meeting(session_id, selected_event_ids, analysis, decisions) ==
    IF session_id \notin DOMAIN game_sessions
    THEN Refused("end_meeting", session_id)
    ELSE Served(session_id,
                end_meeting(game_sessions[session_id], selected_event_ids,
                            analysis, decisions))

\* POST /api/time-skip
api_time_skip(session_id, evolveIn, script, picks) ==
    IF session_id \notin DOMAIN game_sessions
    THEN Refused("time_skip", session_id)
    ELSE Served(session_id,
                time_skip(game_sessions[session_id], evolveIn, script, picks))

\* ------------------------------------------------------------------------
\* Moderator.final_report of the console engine
\* ------------------------------------------------------------------------
\* The verdicts; "--" stands for the dash of the first one.
VeryEffective == "You mediated very effectively -- most crises were defused."
MixedSuccess == "Mixed success: some crises cooled, others linger."
Fragile == "Many crises remained unresolved; the region is fragile."

\* final_report with both comparisons strict.
final_report_Strict(res, spw) ==
    LET ratio == IF spw # 0 THEN <<res, spw>> ELSE <<1, 1>>
    IN IF 4 * ratio[1] > 3 * ratio[2] THEN VeryEffective
       ELSE IF 5 * ratio[1] > 2 * ratio[2] THEN MixedSuccess
       ELSE Fragile

\* The verdict of Moderator.final_report for self.resolved = res and
\* self.spawned = spw.  ratio is the fraction <<numerator, denominator>>;
\* ratio >= 0.75 is 4 * numerator >= 3 * denominator and ratio >= 0.4 is
\* 5 * numerator >= 2 * denominator.  For counters below 2^50 the float
\* quotient compares with the literals 0.75 and 0.4 as the fraction does.
final_report(res, spw) ==
    LET ratio == IF spw # 0 THEN <<res, spw>> ELSE <<1, 1>>
    IN IF 4 * ratio[1] >= 3 * ratio[2] THEN VeryEffective
       ELSE IF 5 * ratio[1] >= 2 * ratio[2] THEN MixedSuccess
       ELSE Fragile

\* ------------------------------------------------------------------------
\* Inputs: what the collaborator and the random source may hand back
\* ------------------------------------------------------------------------
Codes == CodesOf(NumCountries)

Failure == [ok |-> FALSE]

\* random.random() draws, in percent
LowDraw == 10
MidDraw == 35
HighDraw == 90

TraitsWith(dominant) ==
    [t \in Range(TRAIT_NAMES) |-> IF t = dominant THEN 90 ELSE 50]

LeaderDraw(dominant, econ, war, pop, bio_ok) ==
    [age |-> 50, traits |-> TraitsWith(dominant), econ |-> econ, war |-> war,
     pop |-> pop, bio_ok |-> bio_ok]

GenReply(eid, title) ==
    [ok |-> TRUE,
     d |-> [eid |-> eid, title |-> title, description |-> "generated",
            e_type |-> "crisis"]]

EvolveReply(title, res) ==
    [ok |-> TRUE, rnd |-> 0,
     d |-> [title |-> title, description |-> Absent, resolved |-> res]]

EvolveFailure(rnd) ==
    [ok |-> FALSE, rnd |-> rnd,
     d |-> [title |-> Absent, description |-> Absent, resolved |-> Absent]]

DecideReply(res) == [ok |-> TRUE, resolved |-> res, rnd |-> 0]
DecideFailure(rnd) == [ok |-> FALSE, resolved |-> Absent, rnd |-> rnd]

\* the draws of 0.5, which make every fallback delta zero
ZeroNoise == [c \in Codes |-> [econ |-> 50, war |-> 50, pop |-> 50]]

\* the lowest draws for econ and pop, a high one for war
LowNoise == [c \in Codes |-> [econ |-> 0, war |-> 90, pop |-> 0]]

AnalysisFailure(noise) ==
    [ok |-> FALSE, noise |-> noise,
     result |-> [stat_changes |-> <<>>, relationship_changes |-> <<>>,
                 summary |-> Absent]]

AnalysisReply(stat_changes, relationship_changes) ==
    [ok |-> TRUE, noise |-> ZeroNoise,
     result |-> [stat_changes |-> stat_changes,
                 relationship_changes |-> relationship_changes,
                 summary |-> "Talks concluded."]]

Changes(econ, war, pop) ==
    [wellformed |-> TRUE, econ |-> econ, war |-> war, pop |-> pop]

RelChange(a, b, delta) ==
    [wellformed |-> TRUE, a |-> a, b |-> b, delta |-> delta]

ActiveEids == {world.events[i].eid : i \in DOMAIN world.events}

\* ------------------------------------------------------------------------
\* Specification of the event pool: the world's numbers stay put, the
\* collaborator and the random source vary in everything that touches events.
\* The methods are called on one GameSession; the store is not involved.
\* ------------------------------------------------------------------------
MaxMeetings == 1
MaxCycles == 2
MaxSpawned == 3
MaxMemory == 4

DrawsE ==
    [c \in Codes |->
        LeaderDraw(TRAIT_NAMES[CodeIndex(c)], 50, 50, 5000000, FALSE)]

WeightsE == [p \in Pairs(NumCountries) |-> 50]

Incident == GenReply("E2", "minor incident in country a")

\* The replies to the attempts of one generate_multiple call; attempts past
\* the end of the listed ones fail.
Script(replies) ==
    [i \in 1..GenAttempts |-> IF i <= Len(replies) THEN replies[i] ELSE Failure]

Pick(c, t) == <<c, event_types[t]>>

\* What one generate_multiple call is handed: the collaborator's replies and
\* the random.choice draws.  Every attempt fails and the draws differ; every
\* attempt fails and a title is drawn twice; the collaborator returns the
\* same candidate twice and then fails.
GenerationsE ==
    {[script |-> Script(<<>>),
      picks |-> <<Pick("A", 1), Pick("B", 1), Pick("C", 1)>>],
     [script |-> Script(<<>>),
      picks |-> <<Pick("A", 1), Pick("A", 1), Pick("B", 2)>>],
     [script |-> Script(<<Incident, Incident>>),
      picks |-> <<Pick("A", 1), Pick("B", 1), Pick("C", 1)>>]}

EvolveInputsE ==
    {EvolveFailure(LowDraw), EvolveReply(Absent, "true"),
     EvolveReply("COUP", "false")}

DecideInputsE ==
    {DecideReply("false"), DecideFailure(MidDraw)}

\* nothing selected, one event selected, every event selected
SelectionsE == {{}} \cup {{id} : id \in ActiveEids} \cup {ActiveEids}

InitE ==
    /\ game_sessions = NoSessions
    /\ in_flight = NoRequests
    /\ interface = NoInterface
    /\ pc = NotRunning
    /\ \E g \in GenerationsE :
          NewSession(DrawsE, WeightsE, g.script, g.picks)

ConductRoundE ==
    /\ UNCHANGED <<game_sessions, in_flight, interface, pc>>
    /\ \A c \in Codes : Len(leaders[c]) + NumCountries + 1 <= MaxMemory
    /\ ConductRound(ActiveEids, 1, "", [c \in Codes |-> Failure])

EndMeetingE ==
    /\ UNCHANGED <<game_sessions, in_flight, interface, pc>>
    /\ world.meeting_number < MaxMeetings
    /\ \E selected \in SelectionsE :
          \E decisions \in [1..Len(SelectedIdx(world.events, selected, 1))
                               -> DecideInputsE] :
              EndMeeting(selected, AnalysisFailure(ZeroNoise), decisions)

TimeSkipE ==
    /\ UNCHANGED <<game_sessions, in_flight, interface, pc>>
    /\ spawned <= MaxSpawned
    /\ \A i \in DOMAIN world.events : world.events[i].cycles_alive < MaxCycles
    /\ \E evolveIn \in [DOMAIN world.events -> EvolveInputsE] :
          LET w1 == [world EXCEPT !.events = Survivors(world.events, evolveIn)]
          IN IF Len(w1.events) < SpawnThreshold
             THEN \E g \in GenerationsE :
                        TimeSkip(evolveIn, g.script, g.picks)
             ELSE TimeSkip(evolveIn, <<>>, <<>>)

NextE == ConductRoundE \/ EndMeetingE \/ TimeSkipE

SpecE == InitE /\ [][NextE]_vars

\* ------------------------------------------------------------------------
\* Specification of the world's numbers: the event pool stays put, the
\* outcome analysis varies in sign, magnitude, addressee and shape.
\* ------------------------------------------------------------------------
MaxMeetingsW == 2

DrawsW ==
    [c \in Codes |->
        CASE c = "A" -> LeaderDraw("honest", 10, 100, 5000000, TRUE)
          [] c = "B" -> LeaderDraw("ruthless", 100, 10, 300000000, FALSE)
          [] OTHER -> LeaderDraw("diplomatic", 50, 50, 20000000, FALSE)]

WeightsW ==
    {[p \in Pairs(NumCountries) |-> 10],
     [p \in Pairs(NumCountries) |-> IF p = <<1, 2>> THEN 100 ELSE 50]}

\* an entry of relationship_changes that does not unpack into three values
MalformedRel == [wellformed |-> FALSE, a |-> Absent, b |-> Absent, delta |-> BadVal]

\* well-typed replies: deltas of either sign that stay inside the interval
\* or leave it, an unknown country code, a self pair, unknown pair members
RepliesW ==
    {AnalysisReply(
        <<[key |-> "A", changes |-> Changes(Num(15), Num(-15), Num(-5000000))]>>,
        <<RelChange("B", "A", Num(-15)), RelChange("A", "C", Num(-200))>>),
     AnalysisReply(
        <<[key |-> "B", changes |-> Changes(Num(5), Num(-5), NoKey)],
          [key |-> "Z", changes |-> Changes(Num(5), Num(5), Num(5))]>>,
        <<RelChange("B", "C", Num(200)), RelChange("A", "A", Num(5)),
          RelChange("Z", "A", Num(5)), RelChange("A", "Z", Num(5))>>),
     AnalysisReply(<<>>, <<RelChange("A", "B", Num(15))>>),
     AnalysisReply(
        <<[key |-> "C", changes |-> Changes(Num(-200), Num(200), NoKey)]>>,
        <<>>)}

\* replies that make end_meeting raise part-way through
IllTypedW ==
    {AnalysisReply(
        <<[key |-> "C", changes |-> Changes(Num(200), Num(-200), Num(-30000000))],
          [key |-> "A", changes |-> Changes(Num(200), BadVal, Num(0))]>>,
        <<RelChange("A", "B", Num(15))>>),
     AnalysisReply(
        <<>>,
        <<RelChange("C", "B", Num(-200)), MalformedRel,
          RelChange("A", "B", Num(15))>>)}

\* the fallback draws: all 0.5; the lowest for econ and pop with the
\* highest for war
NoisesW == {ZeroNoise, LowNoise}

AnalysesW ==
    {AnalysisFailure(noise) : noise \in NoisesW}
    \cup RepliesW
    \cup IllTypedW

PicksW == <<Pick("A", 1), Pick("B", 1), Pick("C", 1)>>

InitW ==
    /\ game_sessions = NoSessions
    /\ in_flight = NoRequests
    /\ interface = NoInterface
    /\ pc = NotRunning
    /\ \E weights \in WeightsW :
          NewSession(DrawsW, weights, Script(<<>>), PicksW)

ConductRoundW ==
    /\ UNCHANGED <<game_sessions, in_flight, interface, pc>>
    /\ \A c \in Codes : Len(leaders[c]) + NumCountries + 1 <= MaxMemory
    /\ ConductRound(ActiveEids, 1, "", [c \in Codes |-> Failure])

EndMeetingW ==
    /\ UNCHANGED <<game_sessions, in_flight, interface, pc>>
    /\ world.meeting_number < MaxMeetingsW
    /\ \E analysis \in AnalysesW :
          EndMeeting(ActiveEids, analysis,
                     [k \in 1..Len(world.events) |-> DecideFailure(HighDraw)])

TimeSkipW ==
    /\ UNCHANGED <<game_sessions, in_flight, interface, pc>>
    /\ \A i \in DOMAIN world.events : world.events[i].cycles_alive < MaxCycles
    /\ TimeSkip([i \in DOMAIN world.events |-> EvolveFailure(HighDraw)],
                Script(<<>>), PicksW)

GetWorldStateW ==
    /\ UNCHANGED <<game_sessions, in_flight, interface, pc>>
    /\ GetWorldState

NextW == ConductRoundW \/ EndMeetingW \/ TimeSkipW \/ GetWorldStateW

SpecW == InitW /\ [][NextW]_vars

\* ------------------------------------------------------------------------
\* Specification of the rounds: the leaders' traits vary, and in every round
\* each speak call either fails or returns, with or without a player message.
\* ------------------------------------------------------------------------
MaxMemoryR == 8
MaxMeetingsR == 1

SpeakReply(text) == [ok |-> TRUE, reply |-> text]

SpeakInputsR == {Failure, SpeakReply("We stand firm.")}

PlayerMessagesR == {"", "Please agree on a ceasefire."}

\* all traits equal, where the first trait is the dominant one
EvenTraits == [t \in Range(TRAIT_NAMES) |-> 50]

\* leaders A, B, C with dominant traits honest, ambitious, empathetic; with
\* diplomatic, ruthless and a tie of all traits; all with the same traits
DrawsR ==
    {DrawsE,
     [c \in Codes |->
        CASE c = "A" -> LeaderDraw("diplomatic", 50, 50, 5000000, TRUE)
          [] c = "B" -> LeaderDraw("ruthless", 50, 50, 5000000, FALSE)
          [] OTHER -> [LeaderDraw("honest", 50, 50, 5000000, TRUE)
                          EXCEPT !.traits = EvenTraits]],
     [c \in Codes |-> LeaderDraw("ruthless", 50, 50, 5000000, FALSE)]}

InitR ==
    /\ game_sessions = NoSessions
    /\ in_flight = NoRequests
    /\ interface = NoInterface
    /\ pc = NotRunning
    /\ \E draws \in DrawsR :
          NewSession(draws, WeightsE, Script(<<>>), PicksW)

ConductRoundR ==
    /\ UNCHANGED <<game_sessions, in_flight, interface, pc>>
    /\ \A c \in Codes : Len(leaders[c]) + NumCountries + 1 <= MaxMemoryR
    /\ \E speakIn \in [Codes -> SpeakInputsR] :
          \E player_message \in PlayerMessagesR :
              ConductRound(ActiveEids, 1, player_message, speakIn)

EndMeetingR ==
    /\ UNCHANGED <<game_sessions, in_flight, interface, pc>>
    /\ world.meeting_number < MaxMeetingsR
    /\ EndMeeting(ActiveEids, AnalysisFailure(ZeroNoise),
                  [k \in 1..Len(world.events) |-> DecideFailure(HighDraw)])

NextR == ConductRoundR \/ EndMeetingR

SpecR == InitR /\ [][NextR]_vars

\* ------------------------------------------------------------------------
\* Specification of the API routes: requests name sessions that are in the
\* store and sessions that are not, and select events that are active and
\* events that do not exist; every collaborator call fails.
\* ------------------------------------------------------------------------
MaxSessionsS == 2
MaxMeetingsS == 2
MaxCyclesS == 1

\* clock readings, in milliseconds
ClocksS == {1000, 1001}

\* the session ids requests carry: every id new_game can hand out, known to
\* the store or not yet, and a request without a session id
RequestIdsS == {SessionIdAt(clock) : clock \in ClocksS} \cup {Absent}

EidsOf(events) == {events[i].eid : i \in DOMAIN events}

\* an event id no event carries
StrayEid == "E9"

\* the active events; an id that does not exist; both mixed
SelectionsS(s) ==
    {EidsOf(s.world.events), {StrayEid},
     {s.world.events[1].eid, StrayEid}}

AllSpeakFail == [c \in Codes |-> Failure]

\* every evolve call fails and resolves nothing; the collaborator resolves
\* the first event and fails on the others
EvolveInputsS(events) ==
    {[i \in DOMAIN events |-> EvolveFailure(HighDraw)],
     [i \in DOMAIN events |->
        IF i = 1 THEN EvolveReply(Absent, "true")
        ELSE EvolveFailure(HighDraw)]}

InitS ==
    \E clock \in ClocksS :
        LET s == GameSession(DrawsW, WeightsE, Script(<<>>), PicksW)
        IN /\ game_sessions = Store(NoSessions, SessionIdAt(clock), s)
           /\ in_flight = NoRequests
           /\ interface = NoInterface
           /\ pc = NotRunning
           /\ Holds(s, [Report("new_game") EXCEPT
                            !.generated = TRUE,
                            !.session_id = SessionIdAt(clock)])

NewGameS ==
    /\ UNCHANGED <<in_flight, interface, pc>>
    /\ Cardinality(DOMAIN game_sessions) < MaxSessionsS
    /\ \E clock \in ClocksS :
          api_new_game(clock, DrawsW, WeightsE, Script(<<>>), PicksW)

ConductRoundS ==
    /\ UNCHANGED <<in_flight, interface, pc>>
    /\ \E session_id \in RequestIdsS :
        IF session_id \in DOMAIN game_sessions
        THEN LET s == game_sessions[session_id]
             IN /\ \A c \in Codes :
                      Len(s.leaders[c]) + NumCountries + 1 <= MaxMemory
                /\ \E selected \in SelectionsS(s) :
                      api_conduct_round(session_id, selected, 1, "",
                                        AllSpeakFail)
        ELSE api_conduct_round(session_id, {"E1"}, 1, "", AllSpeakFail)

EndMeetingS ==
    /\ UNCHANGED <<in_flight, interface, pc>>
    /\ \E session_id \in RequestIdsS :
        IF session_id \in DOMAIN game_sessions
        THEN LET s == game_sessions[session_id]
             IN /\ s.world.meeting_number < MaxMeetingsS
                /\ \E selected \in SelectionsS(s) :
                      api_end_meeting(session_id, selected,
                                      AnalysisFailure(LowNoise),
                                      [k \in 1..Len(s.world.events) |->
                                          DecideFailure(HighDraw)])
        ELSE api_end_meeting(session_id, {"E1"}, AnalysisFailure(LowNoise),
                             <<>>)

TimeSkipS ==
    /\ UNCHANGED <<in_flight, interface, pc>>
    /\ \E session_id \in RequestIdsS :
        IF session_id \in DOMAIN game_sessions
        THEN LET s == game_sessions[session_id]
             IN /\ \A i \in DOMAIN s.world.events :
                      s.world.events[i].cycles_alive < MaxCyclesS
                /\ \E evolveIn \in EvolveInputsS(s.world.events) :
                      api_time_skip(session_id, evolveIn, Script(<<>>),
                                    PicksW)
        ELSE api_time_skip(session_id, <<>>, Script(<<>>), PicksW)

NextS == NewGameS \/ ConductRoundS \/ EndMeetingS \/ TimeSkipS

SpecS == InitS /\ [][NextS]_vars

\* ------------------------------------------------------------------------
\* Specification of world generation: init_world is called once, for every
\* number of countries up to the bound and with draws from the ends and the
\* middle of what the random source hands out.
\* ------------------------------------------------------------------------
MaxCountriesI == 3

\* the lowest, a middle and the highest value of every draw of
\* generate_leader
LeaderDrawsI ==
    {[age |-> AgeMin, traits |-> [t \in Range(TRAIT_NAMES) |-> 10],
      econ |-> 10, war |-> 10, pop |-> PopUnitsMin * PopUnit, bio_ok |-> TRUE],
     [age |-> 50, traits |-> TraitsWith("empathetic"),
      econ |-> 100, war |-> 10, pop |-> 20 * PopUnit, bio_ok |-> FALSE],
     [age |-> AgeMax, traits |-> [t \in Range(TRAIT_NAMES) |-> 100],
      econ |-> 100, war |-> 100, pop |-> PopUnitsMax * PopUnit,
      bio_ok |-> FALSE]}

WeightDrawsI == {10, 100}

InitI ==
    /\ game_sessions = NoSessions
    /\ in_flight = NoRequests
    /\ interface = NoInterface
    /\ pc = NotRunning
    /\ world = WorldState
    /\ leaders = <<>>
    /\ spawned = 0
    /\ resolved = 0
    /\ transcript = <<>>
    /\ last = Report("start")

InitWorldI ==
    /\ last.op = "start"
    /\ \E n \in 0..MaxCountriesI :
          \E draws \in [CodesOf(n) -> LeaderDrawsI] :
              \E weights \in [Pairs(n) -> WeightDrawsI] :
                  /\ world' = init_world(n, draws, weights)
                  /\ last' = [Report("init_world") EXCEPT !.arg = n]
    /\ UNCHANGED <<leaders, spawned, resolved, transcript, game_sessions, in_flight, interface, pc>>

NextI == InitWorldI

SpecI == InitI /\ [][NextI]_vars

\* ------------------------------------------------------------------------
\* Specification of concurrent requests on one session.  app.run serves each
\* request on a thread of its own and the routes take no lock.  A thread
\* gives way where its handler waits for a collaborator: conduct_round at
\* its first speak call, end_meeting at the call of the outcome analyzer.
\* A time_skip runs from start to finish while the other threads wait.
\* ------------------------------------------------------------------------
MaxThreadsC == 2
MaxMeetingsC == 2
MaxCyclesC == 1
MaxMemoryC == 4

ThreadsC == 1..MaxThreadsC

\* the one session of this specification
SessionC == SessionIdAt(1000)

\* A thread without a request, and a thread inside the handler of op.
Idle == [op |-> Absent, session_id |-> Absent, selected |-> {}]

Request(op, session_id, selected) ==
    [op |-> op, session_id |-> session_id, selected |-> selected]

\* The threads inside the handler of op on session session_id.
InFlight(threads, op, session_id) ==
    {t \in DOMAIN threads :
        threads[t].op = op /\ threads[t].session_id = session_id}

\* Thread t has entered the route of op and waits for a collaborator; the
\* session is as s.
Entered(t, op, session_id, selected, s) ==
    /\ in_flight[t] = Idle
    /\ in_flight' = [in_flight EXCEPT ![t] = Request(op, session_id, selected)]
    /\ UNCHANGED <<interface, pc>>
    /\ game_sessions' = Store(game_sessions, session_id, s)
    /\ Becomes([session |-> s,
                last |-> [Report("enter") EXCEPT !.arg = op,
                                                 !.session_id = session_id,
                                                 !.selected = selected]])

\* Thread t has left the route of op with r = [session, last].
Left(t, op, r) ==
    /\ in_flight[t].op = op
    /\ in_flight' = [in_flight EXCEPT ![t] = Idle]
    /\ UNCHANGED <<interface, pc>>
    /\ Served(in_flight[t].session_id, r)

InitC ==
    LET s == GameSession(DrawsW, WeightsE, Script(<<>>), PicksW)
    IN /\ game_sessions = Store(NoSessions, SessionC, s)
       /\ in_flight = [t \in ThreadsC |-> Idle]
       /\ interface = NoInterface
       /\ pc = NotRunning
       /\ Holds(s, [Report("new_game") EXCEPT !.generated = TRUE,
                                              !.session_id = SessionC])

\* conduct_round up to its first speak call: the selected events are read.
EnterConductRoundC ==
    \E t \in ThreadsC :
        LET s == game_sessions[SessionC]
            waiting == InFlight(in_flight, "conduct_round", SessionC)
        IN /\ \A c \in Codes :
                 Len(s.leaders[c])
                    + (Cardinality(waiting) + 1) * (NumCountries + 1)
                        <= MaxMemoryC + NumCountries + 1
           /\ \E selected \in SelectionsS(s) :
                 Entered(t, "conduct_round", SessionC, selected, s)

\* conduct_round from the reply of its first speak call to its return.
LeaveConductRoundC ==
    \E t \in ThreadsC :
        /\ in_flight[t].op = "conduct_round"
        /\ Left(t, "conduct_round",
                conduct_round(game_sessions[SessionC], in_flight[t].selected,
                              1, "", AllSpeakFail))

\* end_meeting up to the call of the outcome analyzer: the selected events
\* are marked addressed.
EnterEndMeetingC ==
    \E t \in ThreadsC :
        LET s == game_sessions[SessionC]
            waiting == InFlight(in_flight, "end_meeting", SessionC)
        IN /\ s.world.meeting_number + Cardinality(waiting) < MaxMeetingsC
           /\ \E selected \in SelectionsS(s) :
                 Entered(t, "end_meeting", SessionC, selected,
                         end_meeting_marked(s, selected))

\* end_meeting from the reply of the outcome analyzer to its return.
LeaveEndMeetingC ==
    \E t \in ThreadsC :
        LET s == game_sessions[SessionC]
        IN /\ in_flight[t].op = "end_meeting"
           /\ Left(t, "end_meeting",
                   end_meeting_applied(s, in_flight[t].selected,
                                       AnalysisFailure(LowNoise),
                                       [k \in 1..Len(s.world.events) |->
                                           DecideFailure(HighDraw)]))

\* time_skip, from start to finish, on a thread that has no request.
TimeSkipC ==
    \E t \in ThreadsC :
        LET s == game_sessions[SessionC]
        IN /\ in_flight[t] = Idle
           /\ UNCHANGED <<in_flight, interface, pc>>
           /\ \A i \in DOMAIN s.world.events :
                 s.world.events[i].cycles_alive < MaxCyclesC
           /\ \E evolveIn \in EvolveInputsS(s.world.events) :
                 Served(SessionC,
                        time_skip(s, evolveIn, Script(<<>>), PicksW))

NextC ==
    \/ EnterConductRoundC
    \/ LeaveConductRoundC
    \/ EnterEndMeetingC
    \/ LeaveEndMeetingC
    \/ TimeSkipC

SpecC == InitC /\ [][NextC]_vars

\* ------------------------------------------------------------------------
\* Specification of the final report: final_report is called once, for every
\* pair of counters up to the bound.
\* ------------------------------------------------------------------------
MaxCountF == 8

InitF ==
    /\ world = WorldState
    /\ leaders = <<>>
    /\ transcript = <<>>
    /\ game_sessions = NoSessions
    /\ in_flight = NoRequests
    /\ interface = NoInterface
    /\ pc = NotRunning
    /\ spawned \in 0..MaxCountF
    /\ resolved \in 0..MaxCountF
    /\ last = Report("start")

FinalReportF ==
    /\ last.op = "start"
    /\ last' = [Report("final_report") EXCEPT
                    !.verdict = final_report(resolved, spawned)]
    /\ UNCHANGED <<world, leaders, spawned, resolved, transcript, game_sessions, in_flight, interface, pc>>

NextF == FinalReportF

SpecF == InitF /\ [][NextF]_vars

\* ------------------------------------------------------------------------
\* Specification of evolve: evolve is called once on one event, of every age
\* up to the bound, resolved or not, with replies and with failures whose
\* random draw lies on either side of the fallback probability.
\* ------------------------------------------------------------------------
MaxCyclesV == 5

EventsV ==
    {[Event("E1", title, "Low-impact minor incident.", "misc") EXCEPT
          !.cycles_alive = n, !.resolved = b] :
        title \in {"Minor Incident in Country A", "Border clash", "COUP"},
        n \in 1..MaxCyclesV, b \in BOOLEAN}

EvolveInputsV ==
    {EvolveFailure(0), EvolveFailure(EvolveFallbackPercent - 1),
     EvolveFailure(EvolveFallbackPercent), EvolveFailure(HighDraw),
     EvolveReply(Absent, "true"), EvolveReply("COUP", "false"),
     EvolveReply("Border clash", Absent)}

InitV ==
    /\ \E e \in EventsV : world = [WorldState EXCEPT !.events = <<e>>]
    /\ leaders = <<>>
    /\ spawned = 1
    /\ resolved = 0
    /\ transcript = <<>>
    /\ game_sessions = NoSessions
    /\ in_flight = NoRequests
    /\ interface = NoInterface
    /\ pc = NotRunning
    /\ last = Report("start")

EvolveV ==
    /\ last.op = "start"
    /\ \E inp \in EvolveInputsV :
          LET e == world.events[1]
              f == evolve(e, inp)
          IN /\ world' = [world EXCEPT !.events = <<f>>]
             /\ last' = [Report("evolve") EXCEPT
                            !.evolved = <<[before |-> e.resolved,
                                           after |-> f.resolved]>>,
                            !.evolve_failed = IF inp.ok THEN {} ELSE {1}]
    /\ UNCHANGED <<leaders, spawned, resolved, transcript, game_sessions, in_flight, interface, pc>>

NextV == EvolveV

SpecV == InitV /\ [][NextV]_vars

\* ------------------------------------------------------------------------
\* Specification of the counters: meetings follow one another with and
\* without a time_skip in between, the decision says resolved or unresolved
\* for all selected events, and evolve fails or reports the event unresolved.
\* ------------------------------------------------------------------------
MaxMeetingsK == 3
MaxCyclesK == 2

SelectionsK == {ActiveEids, {world.events[1].eid}}

DecideInputsK == {DecideReply("true"), DecideReply("false")}

EvolveInputsK == {EvolveFailure(HighDraw), EvolveReply(Absent, "false")}

InitK ==
    /\ game_sessions = NoSessions
    /\ in_flight = NoRequests
    /\ interface = NoInterface
    /\ pc = NotRunning
    /\ NewSession(DrawsW, WeightsE, Script(<<>>), PicksW)

EndMeetingK ==
    /\ UNCHANGED <<game_sessions, in_flight, interface, pc>>
    /\ world.meeting_number < MaxMeetingsK
    /\ \E selected \in SelectionsK :
          \E decision \in DecideInputsK :
              EndMeeting(selected, AnalysisFailure(ZeroNoise),
                         [k \in 1..Len(world.events) |-> decision])

TimeSkipK ==
    /\ UNCHANGED <<game_sessions, in_flight, interface, pc>>
    /\ \A i \in DOMAIN world.events : world.events[i].cycles_alive < MaxCyclesK
    /\ \E inp \in EvolveInputsK :
          TimeSkip([i \in DOMAIN world.events |-> inp], Script(<<>>), PicksW)

NextK == EndMeetingK \/ TimeSkipK

SpecK == InitK /\ [][NextK]_vars

\* ------------------------------------------------------------------------
\* Properties
\* ------------------------------------------------------------------------
Countries == DOMAIN world.countries

Rel(a, b) == world.countries[a].relationships[b]

AfterSpawn == last.op \in {"new_game", "time_skip"}

\* C1: for every pair of distinct countries a and b, relationships[a][b]
\* equals relationships[b][a], in every state any sequence of operations
\* reaches, whatever relationship deltas the outcome analysis returns.
C1_RelationshipsSymmetric ==
    \A a \in Countries : \A b \in Countries \ {a} :
        /\ b \in DOMAIN world.countries[a].relationships
        /\ a \in DOMAIN world.countries[b].relationships
        /\ Rel(a, b) = Rel(b, a)

\* A second end_meeting in a row of two has applied relationship deltas.
W_C1_SecondMeetingChangedRelationships ==
    /\ last.op = "end_meeting"
    /\ ~last.raised
    /\ world.meeting_number >= 2
    /\ \E i \in DOMAIN last.returned.relationship_changes :
          /\ last.returned.relationship_changes[i].a \in Countries
          /\ last.returned.relationship_changes[i].b
                \in Countries \ {last.returned.relationship_changes[i].a}

StatsInRange ==
    /\ \A c \in Countries :
          /\ world.countries[c].leader.econ_power >= PowerMin
          /\ world.countries[c].leader.econ_power <= PowerMax
          /\ world.countries[c].leader.war_power >= PowerMin
          /\ world.countries[c].leader.war_power <= PowerMax
          /\ world.countries[c].leader.population >= PopMin
    /\ \A a \in Countries : \A b \in DOMAIN world.countries[a].relationships :
          Rel(a, b) >= RelMin /\ Rel(a, b) <= RelMax

\* the delta the returned outcomes carry for stat f of country c
StatDelta(outcomes, c, f) ==
    LET idx == {i \in DOMAIN outcomes.stat_changes :
                    outcomes.stat_changes[i].key = c}
    IN IF idx = {} THEN 0
       ELSE GetOr0(outcomes.stat_changes[CHOOSE i \in idx : TRUE].changes[f]).v

\* the entries of the returned relationship changes that address the pair
RelEntries(outcomes, a, b) ==
    {i \in DOMAIN outcomes.relationship_changes :
        {outcomes.relationship_changes[i].a,
         outcomes.relationship_changes[i].b} = {a, b}}

\* post is pre + delta when that lies in [lo, hi], else the boundary crossed
Saturates(pre, delta, post, lo, hi) ==
    /\ pre + delta > hi => post = hi
    /\ pre + delta < lo => post = lo
    /\ (pre + delta >= lo /\ pre + delta <= hi) => post = pre + delta

\* population has no upper boundary
SaturatesBelow(pre, delta, post, lo) ==
    /\ pre + delta < lo => post = lo
    /\ pre + delta >= lo => post = pre + delta

EndMeetingSaturates ==
    (last'.op = "end_meeting" /\ ~last'.raised) =>
        /\ \A c \in Countries :
              /\ Saturates(world.countries[c].leader.econ_power,
                           StatDelta(last'.returned, c, "econ"),
                           world'.countries[c].leader.econ_power,
                           PowerMin, PowerMax)
              /\ Saturates(world.countries[c].leader.war_power,
                           StatDelta(last'.returned, c, "war"),
                           world'.countries[c].leader.war_power,
                           PowerMin, PowerMax)
              /\ SaturatesBelow(world.countries[c].leader.population,
                                StatDelta(last'.returned, c, "pop"),
                                world'.countries[c].leader.population,
                                PopMin)
        /\ \A a \in Countries : \A b \in Countries \ {a} :
              LET idx == RelEntries(last'.returned, a, b)
              IN Cardinality(idx) = 1 =>
                    Saturates(Rel(a, b),
                              last'.returned.relationship_changes[
                                  CHOOSE i \in idx : TRUE].delta.v,
                              world'.countries[a].relationships[b],
                              RelMin, RelMax)

\* C2: after end_meeting applies deltas of any sign or magnitude, econ_power
\* and war_power lie in [0.1, 1.0], population is at least 1 and every
\* relationship lies in [0.0, 1.0]; a delta that would leave the interval
\* yields exactly the boundary value.
C2_DeltasClamped == []StatsInRange /\ [][EndMeetingSaturates]_vars

\* An end_meeting has pushed a population to its floor, a power to its
\* ceiling and a relationship to its floor.
W_C2_ValuesAtBoundaries ==
    /\ last.op = "end_meeting"
    /\ ~last.raised
    /\ world.countries["A"].leader.population = PopMin
    /\ StatDelta(last.returned, "A", "pop") < 0
    /\ world.countries["A"].leader.war_power < PowerMax
    /\ Rel("A", "C") = RelMin
    /\ RelEntries(last.returned, "A", "C") # {}

\* C3 (as claimed): the active collection never holds more than MAX_EVENTS
\* events.
CE_C3_PoolWithinMaximum == Len(world.events) <= MAX_EVENTS

\* C4 (as claimed): when an operation that invoked event generation returns,
\* the active collection holds exactly MAX_EVENTS events.
CE_C4_ToppedUpToMaximum ==
    (AfterSpawn /\ last.generated) => Len(world.events) = MAX_EVENTS

\* C5: after newSession and after every timeSkip the active collection is
\* non-empty, also when every collaborator call fails.
C5_NeverEventless == AfterSpawn => Len(world.events) >= 1

\* A time_skip removed every event it found and refilled the pool with
\* fallback events only.
W_C5_RefilledByFallback ==
    /\ last.op = "time_skip"
    /\ last.generated
    /\ Len(last.evolved) >= 1
    /\ \A k \in DOMAIN last.evolved : last.evolved[k].after
    /\ \A i \in DOMAIN world.events : world.events[i].e_type = "misc"

\* C6: when a timeSkip returns, no event of the active collection is
\* resolved.
C6_NoResolvedAfterTimeSkip ==
    last.op = "time_skip" =>
        \A i \in DOMAIN world.events : ~world.events[i].resolved

\* A time_skip whose evolve step left an event resolved, one that an
\* end_meeting had resolved before and one that evolve resolved itself.
W_C6_ResolvedEventRemoved ==
    /\ last.op = "time_skip"
    /\ \E k \in DOMAIN last.evolved :
          last.evolved[k].before /\ last.evolved[k].after
    /\ \E k \in DOMAIN last.evolved :
          ~last.evolved[k].before /\ last.evolved[k].after

NoResolvedNewborn ==
    \A i \in DOMAIN world.events :
        world.events[i].resolved => world.events[i].cycles_alive > 0

EndMeetingCountsOnlyAged ==
    last'.op = "end_meeting" =>
        resolved' - resolved <=
            Cardinality({k \in DOMAIN last'.decided :
                            last'.decided[k].cycles_alive > 0})

\* C7: an event with cycles_alive = 0 is never resolved: in every state
\* resolved implies cycles_alive > 0, and end_meeting does not count a
\* selected event with cycles_alive = 0 in the resolved counter whatever
\* decide returns.
C7_NewbornNeverResolved ==
    []NoResolvedNewborn /\ [][EndMeetingCountsOnlyAged]_vars

\* decide returned true for a selected event with cycles_alive = 0.
W_C7_DecidedTrueForNewborn ==
    /\ last.op = "end_meeting"
    /\ \E k \in DOMAIN last.decided :
          last.decided[k].decision /\ last.decided[k].cycles_alive = 0

\* C8 (as claimed): once an event's resolved flag is true no operation sets
\* it back to false: evolve leaves a resolved event resolved, and the other
\* operations, which keep every event in place, do too.
CE_C8_ResolvedIsTerminal ==
    [][/\ \A k \in DOMAIN last'.evolved :
             last'.evolved[k].before => last'.evolved[k].after
       /\ last'.op # "time_skip" =>
             /\ Len(world'.events) = Len(world.events)
             /\ \A i \in DOMAIN world.events :
                   world.events[i].resolved => world'.events[i].resolved]_vars

\* C9 (as claimed): no two events of the active collection have the same
\* eid.
CE_C9_EidsUnique ==
    \A i \in DOMAIN world.events : \A j \in DOMAIN world.events :
        i # j => world.events[i].eid # world.events[j].eid

\* C10 (as claimed): after every spawn no two events of the active
\* collection have titles that are equal ignoring case.
CE_C10_TitlesUniqueIgnoringCase ==
    AfterSpawn =>
        \A i \in DOMAIN world.events : \A j \in DOMAIN world.events :
            i # j => Lower(world.events[i].title) # Lower(world.events[j].title)

\* the positions of the returned utterances of the given type
Utterances(responses, type) ==
    {i \in DOMAIN responses : responses[i].type = type}

\* C11: every conduct_round returns exactly one leader utterance per
\* country (and at most one player entry) and does not raise, also when
\* speak calls fail; a leader whose call failed contributes the canned line
\* of its dominant trait.
C11_OneUtterancePerLeader ==
    last.op = "conduct_round" =>
        /\ ~last.raised
        /\ \A c \in Countries :
              Cardinality({i \in Utterances(last.returned, "leader") :
                              last.returned[i].country = c}) = 1
        /\ Cardinality(Utterances(last.returned, "leader"))
              = Cardinality(Countries)
        /\ Cardinality(Utterances(last.returned, "player")) <= 1
        /\ Len(last.returned)
              = Cardinality(Utterances(last.returned, "leader"))
                + Cardinality(Utterances(last.returned, "player"))
        /\ \A c \in last.speak_failed :
              \A i \in Utterances(last.returned, "leader") :
                  last.returned[i].country = c =>
                      last.returned[i].content =
                          fallback_responses(
                              DominantTrait(world.countries[c].leader.traits))

\* A round with a player message in which the diplomatic leader A and the
\* leader C, whose traits tie, fell back and leader B did not.
W_C11_SomeLeadersFellBack ==
    /\ last.op = "conduct_round"
    /\ last.speak_failed = {"A", "C"}
    /\ Utterances(last.returned, "player") # {}
    /\ last.returned[1].content
          = "I believe we can find common ground through dialogue."
    /\ last.returned[3].content
          = "We must address these issues with complete transparency."

Abs(x) == IF x < 0 THEN -x ELSE x

FallbackOutcomeApplied ==
    (last'.op = "end_meeting" /\ last'.analysis_failed) =>
        /\ ~last'.raised
        /\ last'.returned.summary
              = "Mixed diplomatic outcomes with some progress on key issues."
        /\ \A c \in Countries :
              Cardinality({i \in DOMAIN last'.returned.stat_changes :
                              last'.returned.stat_changes[i].key = c}) = 1
        /\ \A i \in DOMAIN last'.returned.stat_changes :
              LET ch == last'.returned.stat_changes[i].changes
              IN /\ ch.econ.k = "num" /\ Abs(ch.econ.v) <= PromptPowerDelta
                 /\ ch.war.k = "num" /\ Abs(ch.war.v) <= PromptPowerDelta
                 /\ ch.pop.k = "num" /\ Abs(ch.pop.v) <= PromptPopDelta
        /\ last'.returned.relationship_changes = <<>>
        /\ \A c \in Countries :
              /\ Saturates(world.countries[c].leader.econ_power,
                           StatDelta(last'.returned, c, "econ"),
                           world'.countries[c].leader.econ_power,
                           PowerMin, PowerMax)
              /\ Saturates(world.countries[c].leader.war_power,
                           StatDelta(last'.returned, c, "war"),
                           world'.countries[c].leader.war_power,
                           PowerMin, PowerMax)
              /\ SaturatesBelow(world.countries[c].leader.population,
                                StatDelta(last'.returned, c, "pop"),
                                world'.countries[c].leader.population,
                                PopMin)
              /\ world'.countries[c].relationships
                    = world.countries[c].relationships

\* C12: when the outcome analysis fails, end_meeting still returns: the
\* outcome carries the fallback summary, one stat delta per country with
\* |econ| and |war| at most 0.15 and |pop| at most 5,000,000, and no
\* relationship change; the world moves by exactly these deltas (up to the
\* clamps) and no relationship changes.
C12_FallbackOutcome == [][FallbackOutcomeApplied]_vars

\* A failed analysis whose fallback drew the lowest econ and pop deltas,
\* applied to country C in full.
W_C12_FallbackDeltasApplied ==
    /\ last.op = "end_meeting"
    /\ last.analysis_failed
    /\ StatDelta(last.returned, "C", "econ") = -5
    /\ StatDelta(last.returned, "C", "pop") = -500000
    /\ world.countries["C"].leader.econ_power = 45
    /\ world.countries["C"].leader.population = 19500000

\* the bio generate_leader writes when the collaborator fails
FallbackBio(c) ==
    "Leader of country " \o c \o ", known for their "
    \o DominantTrait(world.countries[c].leader.traits)
    \o " approach to governance."

\* C13: with a collaborator that fails on the bio of every leader, on every
\* speak and analysis call and on any generate, evolve and decide call, each
\* of new_game, conduct_round, end_meeting and time_skip returns a next
\* state: no operation raises or answers with an error, and every leader
\* carries the fallback bio.
C13_FailuresAbsorbed ==
    /\ ~last.raised
    /\ last.error = Absent
    /\ \A c \in Countries :
          world.countries[c].leader.backstory = FallbackBio(c)

\* A time_skip whose generate_multiple fell back on every attempt, after a
\* round and a meeting that fell back too.
W_C13_EveryOperationFellBack ==
    /\ last.op = "time_skip"
    /\ last.generated
    /\ world.meeting_number = 1
    /\ \A c \in Countries : Len(leaders[c]) = NumCountries - 1
    /\ \A i \in DOMAIN world.events : world.events[i].e_type = "misc"
    /\ world.countries["A"].leader.backstory
          = "Leader of country A, known for their honest approach to governance."

\* C14 (as claimed): whatever shape the fields of the analysis reply have,
\* end_meeting completes: it does not raise, it increments meeting_number
\* and it clears the transcript.
CE_C14_IllShapedReplyHandled ==
    [][last'.op = "end_meeting" =>
          /\ ~last'.raised
          /\ world'.meeting_number = world.meeting_number + 1
          /\ transcript' = <<>>]_vars

SessionOps == {"conduct_round", "end_meeting", "time_skip"}

UnknownSessionRefused ==
    (last'.op \in SessionOps /\ last'.session_id \notin DOMAIN game_sessions)
        => /\ last'.error = "Invalid session"
           /\ ~last'.raised
           /\ last'.returned = <<>>
           /\ game_sessions' = game_sessions
           /\ UNCHANGED <<world, leaders, spawned, resolved, transcript>>

\* C15: a conduct_round, end_meeting or time_skip request whose session id
\* is not in the store is answered with an error; the store keeps its keys
\* and every stored session keeps its state.
C15_UnknownSessionRefused == [][UnknownSessionRefused]_vars

\* A request was refused while the store held two sessions, one of them
\* after a meeting.
W_C15_RefusedWithSessionsStored ==
    /\ last.error = "Invalid session"
    /\ last.session_id \notin DOMAIN game_sessions
    /\ Cardinality(DOMAIN game_sessions) = 2
    /\ \E id \in DOMAIN game_sessions :
          game_sessions[id].world.meeting_number = 1

\* C16 (as claimed): a conduct_round or end_meeting request that selects an
\* event id no active event carries is answered with an error and leaves
\* the session as it was.
CE_C16_InvalidSelectionRefused ==
    [][(/\ last'.op \in {"conduct_round", "end_meeting"}
        /\ last'.session_id \in DOMAIN game_sessions
        /\ ~(last'.selected \subseteq
                EidsOf(game_sessions[last'.session_id].world.events)))
          => /\ last'.error # Absent
             /\ game_sessions' = game_sessions]_vars

\* C17: init_world(n) yields exactly n countries coded with the first n
\* letters; every country's relationship map has an entry for every other
\* country and none for itself; relationships[a][b] = relationships[b][a];
\* every relationship, trait, econ_power and war_power lies in [0.1, 1.0];
\* every population is a positive integer.
C17_InitWorldWellFormed ==
    last.op = "init_world" =>
        /\ Cardinality(Countries) = last.arg
        /\ Countries = {Alphabet[i] : i \in 1..last.arg}
        /\ world.events = <<>>
        /\ world.meeting_number = 0
        /\ \A c \in Countries :
              DOMAIN world.countries[c].relationships = Countries \ {c}
        /\ \A c \in Countries :
              /\ world.countries[c].code = c
              /\ world.countries[c].leader.code = c
              /\ \A d \in Countries \ {c} :
                    /\ Rel(c, d) = Rel(d, c)
                    /\ Rel(c, d) >= PowerMin /\ Rel(c, d) <= PowerMax
              /\ DOMAIN world.countries[c].leader.traits = Range(TRAIT_NAMES)
              /\ \A t \in Range(TRAIT_NAMES) :
                    /\ world.countries[c].leader.traits[t] >= PowerMin
                    /\ world.countries[c].leader.traits[t] <= PowerMax
              /\ world.countries[c].leader.econ_power >= PowerMin
              /\ world.countries[c].leader.econ_power <= PowerMax
              /\ world.countries[c].leader.war_power >= PowerMin
              /\ world.countries[c].leader.war_power <= PowerMax
              /\ world.countries[c].leader.population \in Nat \ {0}

\* init_world built the largest world, with the lowest and the highest
\* weight among its relationships and the largest population.
W_C17_LargestWorldBuilt ==
    /\ last.op = "init_world"
    /\ last.arg = MaxCountriesI
    /\ Rel("A", "B") = 10
    /\ Rel("B", "C") = 100
    /\ world.countries["C"].leader.population = PopUnitsMax * PopUnit

\* the leader stats and the relationships of every country
StatsOf(w) ==
    [c \in DOMAIN w.countries |->
        [econ_power |-> w.countries[c].leader.econ_power,
         war_power |-> w.countries[c].leader.war_power,
         population |-> w.countries[c].leader.population,
         relationships |-> w.countries[c].relationships]]

OnlyEndMeetingMovesStats ==
    /\ last'.op # "end_meeting" => StatsOf(world') = StatsOf(world)
    /\ EndMeetingSaturates

\* C18: econ_power, war_power, population and the relationships change only
\* in end_meeting, and an end_meeting that returns has added every returned
\* delta once (up to the clamps); conduct_round, time_skip and
\* get_world_state leave all of them as they were.
C18_OnlyEndMeetingMovesStats == [][OnlyEndMeetingMovesStats]_vars

\* get_world_state ran after a meeting had raised A's econ_power from 0.1 by
\* 0.15, a round had been held and a time_skip had aged the events.
W_C18_ReadAfterMeetingRoundAndSkip ==
    /\ last.op = "get_world_state"
    /\ last.returned.meeting_number = 1
    /\ last.returned.countries["A"].leader.econ_power = 25
    /\ Len(leaders["A"]) > 0
    /\ \A i \in DOMAIN world.events : world.events[i].cycles_alive >= 1

MeetingCounted ==
    /\ (last'.op = "end_meeting" /\ ~last'.raised) =>
          /\ world'.meeting_number = world.meeting_number + 1
          /\ transcript' = <<>>
    /\ (last'.op # "end_meeting" \/ last'.raised) =>
          world'.meeting_number = world.meeting_number

\* C19: meeting_number is 0 in a new session; every end_meeting that
\* returns increases it by exactly 1 and leaves the transcript empty; no
\* other operation, and no end_meeting that does not return, changes it.
C19_MeetingNumberCountsMeetings ==
    /\ [](last.op = "new_game" => world.meeting_number = 0)
    /\ [][MeetingCounted]_vars

\* The first meeting that returned closed a round whose utterances were in
\* the transcript.
W_C19_MeetingClosedAfterRound ==
    /\ last.op = "end_meeting"
    /\ ~last.raised
    /\ world.meeting_number = 1
    /\ Len(leaders["A"]) = NumCountries - 1
    /\ transcript = <<>>

AddressedTracked ==
    (last'.session_id \in DOMAIN game_sessions /\ last'.error = Absent) =>
        LET pre == game_sessions[last'.session_id].world.events
            post == game_sessions'[last'.session_id].world.events
        IN /\ world'.events = post
           /\ last'.op = "end_meeting" =>
                 /\ Len(post) = Len(pre)
                 /\ \A i \in DOMAIN pre :
                       /\ post[i].eid = pre[i].eid
                       /\ post[i].addressed
                             = (pre[i].addressed
                                \/ pre[i].eid \in last'.selected)
           /\ last'.op = "time_skip" =>
                 \A i \in DOMAIN post : ~post[i].addressed

\* C20: end_meeting sets addressed on exactly the active events whose eid
\* is in the selection and leaves the flag of every other event as it was;
\* when a time_skip returns, every active event, surviving or newly
\* spawned, has addressed = FALSE.
C20_AddressedFollowsSelection == [][AddressedTracked]_vars

\* A second meeting of a session, held after a time_skip that removed one
\* event and spawned another, selected the first event and an id that does
\* not exist: the first event alone is addressed.
W_C20_SecondMeetingMarkedOne ==
    /\ last.op = "end_meeting"
    /\ world.meeting_number = 2
    /\ last.selected = {world.events[1].eid, StrayEid}
    /\ world.events[1].addressed
    /\ \E i \in DOMAIN world.events :
          ~world.events[i].addressed /\ world.events[i].cycles_alive = 0
    /\ world.events[1].cycles_alive = 1

\* ------------------------------------------------------------------------
\* Event ages and membership of the pool
\* ------------------------------------------------------------------------
\* The positions of the events a time_skip keeps, in order: those whose
\* resolved flag is false after their evolve call (log = last.evolved).
KeptIdx(log) ==
    LET F[i \in 0..Len(log)] ==
            IF i = 0 THEN <<>>
            ELSE IF log[i].after THEN F[i - 1] ELSE Append(F[i - 1], i)
    IN F[Len(log)]

\* One step counts ages as time_skip does: a time_skip leaves every event it
\* keeps one cycle older and every event it adds at 0; any other operation
\* leaves the age of every event as it was.
CyclesCounted ==
    IF last'.op = "time_skip"
    THEN LET kept == KeptIdx(last'.evolved)
         IN /\ Len(world'.events) >= Len(kept)
            /\ \A k \in DOMAIN world'.events :
                  world'.events[k].cycles_alive =
                      IF k <= Len(kept)
                      THEN world.events[kept[k]].cycles_alive + 1
                      ELSE 0
    ELSE /\ Len(world'.events) = Len(world.events)
         /\ \A k \in DOMAIN world.events :
               world'.events[k].cycles_alive = world.events[k].cycles_alive

\* C21: a new session starts with every event at cycles_alive 0, each
\* time_skip adds exactly 1 to the cycles_alive of every event that was active
\* when it started and is still active, the events it spawns have 0, and no
\* other operation changes cycles_alive: the value counts the time skips the
\* event has been through.
C21_CyclesAliveCountsTimeSkips ==
    /\ [](last.op = "new_game" =>
            \A i \in DOMAIN world.events : world.events[i].cycles_alive = 0)
    /\ [][CyclesCounted]_vars

\* A time_skip has left an event that went through two skips next to one it
\* has just spawned.
W_C21_OldAndNewbornTogether ==
    /\ last.op = "time_skip"
    /\ \E i, j \in DOMAIN world.events :
          /\ world.events[i].cycles_alive = 2
          /\ world.events[j].cycles_alive = 0

\* ------------------------------------------------------------------------
\* Order of the steps of a round
\* ------------------------------------------------------------------------
\* The player message a conduct_round returned, Absent when it had none.
PlayerMessageOf(rep) ==
    IF \E k \in DOMAIN rep.returned : rep.returned[k].type = "player"
    THEN (CHOOSE r \in Range(rep.returned) : r.type = "player").content
    ELSE Absent

\* The entries a leader's memory gained in the round before its speak call.
HeardInRound(c) ==
    SubSeq(last'.heard[c], Len(leaders[c]) + 1, Len(last'.heard[c]))

\* A conduct_round with a player message has put the message into every
\* speaker's memory before that speaker's speak call.
PlayerMessageHeard ==
    (last'.op = "conduct_round" /\ PlayerMessageOf(last') # Absent) =>
        \A c \in DOMAIN leaders :
            InList(<<"user", PlayerMessageOf(last')>>, HeardInRound(c))

\* C22: when conduct_round is called with a player message, the message is in
\* every speaker's memory before that speaker's utterance of the call is
\* generated.
CE_C22_PlayerMessageBeforeLeaders == [][PlayerMessageHeard]_vars

\* ------------------------------------------------------------------------
\* Requests on one session at the same time
\* ------------------------------------------------------------------------
\* The threads that are inside a handler on session id before and after the
\* step, at the same place: requests the step is not a part of.
WaitingOthers(id) ==
    {t \in DOMAIN in_flight :
        /\ t \in DOMAIN in_flight'
        /\ in_flight[t] # Idle
        /\ in_flight'[t] = in_flight[t]
        /\ in_flight[t].session_id = id}

\* A step that changes a session is taken while no other request on that
\* session is in flight.
OneRequestPerSession ==
    \A id \in DOMAIN game_sessions :
        game_sessions'[id] # game_sessions[id] => WaitingOthers(id) = {}

\* C23: for one session id at most one mutating operation is in flight at a
\* time: no request mutates the session while another request on the same
\* session has begun and not finished.
CE_C23_OneRequestPerSession == [][OneRequestPerSession]_vars

\* ------------------------------------------------------------------------
\* Independence of sessions
\* ------------------------------------------------------------------------
\* A conduct_round, end_meeting or time_skip served on one session leaves the
\* store with the same ids and every other session as it was: world,
\* memories, transcript and counters.
OtherSessionsUntouched ==
    (last'.op \in SessionOps /\ last'.session_id \in DOMAIN game_sessions) =>
        /\ DOMAIN game_sessions' = DOMAIN game_sessions
        /\ \A t \in DOMAIN game_sessions \ {last'.session_id} :
              game_sessions'[t] = game_sessions[t]

\* C24: sessions are independent: conduct_round, end_meeting and time_skip on
\* session s, interleaved in any order with operations on another session t,
\* leave t's world, agent memories, transcript and spawned and resolved
\* counters unchanged.
C24_SessionsIndependent == [][OtherSessionsUntouched]_vars

\* An operation was served on one session while the store held another one
\* that had been through a meeting and differs from it.
W_C24_ServedNextToAdvancedSession ==
    /\ last.op \in SessionOps
    /\ last.error = Absent
    /\ \E t \in DOMAIN game_sessions \ {last.session_id} :
          /\ game_sessions[t].world.meeting_number >= 1
          /\ game_sessions[t] # game_sessions[last.session_id]

\* ------------------------------------------------------------------------
\* The verdict of the final report
\* ------------------------------------------------------------------------
\* C25: for spawned > 0 the verdict of final_report is the "very effective"
\* one exactly when resolved / spawned >= 0.75, the "mixed" one exactly when
\* 0.4 <= resolved / spawned < 0.75, and the "fragile" one otherwise; nothing
\* but the two counters enters it.
C25_VerdictBands ==
    (last.op = "final_report" /\ spawned > 0) =>
        /\ last.verdict \in {VeryEffective, MixedSuccess, Fragile}
        /\ last.verdict = VeryEffective <=> 4 * resolved >= 3 * spawned
        /\ last.verdict = MixedSuccess <=>
              (5 * resolved >= 2 * spawned /\ 4 * resolved < 3 * spawned)
        /\ last.verdict = Fragile <=> 5 * resolved < 2 * spawned

\* final_report ran with the ratio exactly at 0.75 or exactly at 0.4.
W_C25_RatioOnAThreshold ==
    /\ last.op = "final_report"
    /\ spawned > 0
    /\ \/ 4 * resolved = 3 * spawned
       \/ 5 * resolved = 2 * spawned

\* One step treats the pool as claimed: a time_skip keeps, at the head of
\* the pool and in their order, exactly the events whose resolved flag is
\* false after their evolve call, each with its eid; any other operation
\* leaves the pool with the same events at the same positions.
PoolMembership ==
    IF last'.op = "time_skip"
    THEN LET kept == KeptIdx(last'.evolved)
         IN /\ Len(world'.events) >= Len(kept)
            /\ \A k \in 1..Len(kept) :
                  /\ world'.events[k].eid = world.events[kept[k]].eid
                  /\ world'.events[k].cycles_alive > 0
            /\ \A k \in (Len(kept) + 1)..Len(world'.events) :
                  world'.events[k].cycles_alive = 0
    ELSE /\ Len(world'.events) = Len(world.events)
         /\ \A k \in DOMAIN world.events :
               world'.events[k].eid = world.events[k].eid

\* C26: an event leaves the active collection only inside a time_skip and
\* only if its resolved flag is true after its evolve step; time_skip keeps
\* the unresolved events with their eid and in their relative order;
\* conduct_round and end_meeting neither add nor remove events.
C26_EventsLeaveOnlyInTimeSkip == [][PoolMembership]_vars

\* A time_skip removed an event that an unresolved event followed in the pool.
W_C26_RemovedAheadOfKept ==
    /\ last.op = "time_skip"
    /\ \E i, j \in DOMAIN last.evolved :
          /\ i < j
          /\ last.evolved[i].after
          /\ ~last.evolved[j].after

\* ------------------------------------------------------------------------
\* Session ids
\* ------------------------------------------------------------------------
\* A new_game stores its session under an id the store did not hold.
NewGameTakesFreshId ==
    last'.op = "new_game" => last'.session_id \notin DOMAIN game_sessions

\* C27: new_game never replaces an existing session: it stores its
\* GameSession under an id that was not in the store before, also when two
\* new_game requests are handled at the same clock value.
CE_C27_NewGameNeverReplaces == [][NewGameTakesFreshId]_vars

\* ------------------------------------------------------------------------
\* Calls of the resolution decision
\* ------------------------------------------------------------------------
\* C28: during end_meeting the resolution decision is invoked only for
\* selected events with cycles_alive > 0; for a selected event with
\* cycles_alive = 0 no call is made.
CE_C28_DecideOnlyForAgedEvents ==
    last.op = "end_meeting" =>
        \A k \in DOMAIN last.decided : last.decided[k].cycles_alive > 0

\* ------------------------------------------------------------------------
\* Growth of the agents' memories
\* ------------------------------------------------------------------------
Count(seq, e) == Cardinality({k \in DOMAIN seq : seq[k] = e})

\* What leader d said in the round rep reports.
UtteranceOf(rep, d) ==
    (CHOOSE r \in Range(rep.returned) :
        r.type = "leader" /\ r.country = d).content

\* The entry the other agents receive for the utterance of leader d.
PeerEntry(rep, d) ==
    <<"user", world.countries[d].leader.name \o " said: "
                \o UtteranceOf(rep, d)>>

\* One step grows the memories as claimed: a conduct_round appends to each
\* agent's memory one peer entry per other leader, none for its own
\* utterance, its own reply iff its speak call succeeded and the player
\* message iff there is one; what the memory held stays in front, in order.
\* Any other operation leaves the memories as they were.
MemoryGrowth ==
    IF last'.op = "conduct_round"
    THEN \A c \in DOMAIN leaders :
            LET added == SubSeq(leaders'[c], Len(leaders[c]) + 1,
                                Len(leaders'[c]))
                msg == PlayerMessageOf(last')
                own == IF c \in last'.speak_failed THEN 0 ELSE 1
                player == IF msg = Absent THEN 0 ELSE 1
            IN /\ Len(leaders'[c]) >= Len(leaders[c])
               /\ SubSeq(leaders'[c], 1, Len(leaders[c])) = leaders[c]
               /\ Len(added) = Cardinality(DOMAIN leaders) - 1 + own + player
               /\ \A d \in DOMAIN leaders \ {c} :
                     Count(added, PeerEntry(last', d)) = 1
               /\ Count(added, PeerEntry(last', c)) = 0
               /\ Count(added, <<"assistant", UtteranceOf(last', c)>>) = own
               /\ msg # Absent => Count(added, <<"user", msg>>) = 1
    ELSE leaders' = leaders

\* C29: with n leaders, one conduct_round grows each agent's memory by
\* exactly n-1 peer entries "{name} said: {utterance}" (one per other leader,
\* none for its own utterance, fallback utterances included), plus one
\* self-authored entry iff its own generation succeeded, plus one entry iff a
\* non-empty player message was supplied; existing entries are never removed
\* or reordered.
C29_MemoryGrowsPerRound == [][MemoryGrowth]_vars

\* A second round with a player message in which some speak calls succeeded
\* and some fell back.
W_C29_MixedSecondRoundWithMessage ==
    /\ last.op = "conduct_round"
    /\ last.speak_failed # {}
    /\ last.speak_failed # DOMAIN leaders
    /\ PlayerMessageOf(last) # Absent
    /\ \E c \in DOMAIN leaders : Len(leaders[c]) > NumCountries + 1

\* ------------------------------------------------------------------------
\* Order of the leaders' turns
\* ------------------------------------------------------------------------
\* The peer entries for the utterances of the first k leaders, in order.
PeerEntriesUpTo(rep, k) == [i \in 1..k |-> PeerEntry(rep, Alphabet[i])]

\* A conduct_round has let the leaders speak in country order, each once,
\* and the i-th leader has spoken with a memory that holds what it held
\* before the call followed by the utterances of leaders 1..i-1 of the round,
\* and nothing of the later ones.
TurnsInOrder ==
    last'.op = "conduct_round" =>
        LET n == Cardinality(DOMAIN leaders)
        IN /\ Len(last'.returned) >= n
           /\ \A i \in 1..Len(last'.returned) :
                 IF i <= n
                 THEN /\ last'.returned[i].type = "leader"
                      /\ last'.returned[i].country = Alphabet[i]
                 ELSE last'.returned[i].type # "leader"
           /\ \A i \in 1..n :
                 last'.heard[Alphabet[i]] =
                    leaders[Alphabet[i]] \o PeerEntriesUpTo(last', i - 1)

\* C30: within one conduct_round the leaders' utterances are generated one
\* after another in country order, each leader speaking exactly once, and the
\* utterance of leader k is in every other agent's memory before leader k+1
\* speaks: a leader speaks with the round's utterances of all earlier leaders
\* in memory and of none of the later ones.
C30_TurnsOneAfterAnother == [][TurnsInOrder]_vars

\* In a later round the first leader's reply and the second leader's
\* fallback reached the third leader before it spoke.
W_C30_ThirdHeardReplyAndFallback ==
    /\ last.op = "conduct_round"
    /\ Alphabet[1] \notin last.speak_failed
    /\ Alphabet[2] \in last.speak_failed
    /\ last.heard[Alphabet[1]] # <<>>
    /\ Len(last.heard[Alphabet[3]]) >= 2

\* ------------------------------------------------------------------------
\* The fallback of evolve
\* ------------------------------------------------------------------------
\* An evolve call that fell back left the event as it was, except that an
\* unresolved event older than two cycles may have become resolved.
EvolveFallbackOnlyResolvesOld ==
    (last'.op = "evolve" /\ last'.evolve_failed # {}) =>
        LET e == world.events[1]
            f == world'.events[1]
        IN /\ f.title = e.title
           /\ f.description = e.description
           /\ f = [e EXCEPT !.resolved = f.resolved]
           /\ e.cycles_alive <= EvolveFallbackCycles => f.resolved = e.resolved
           /\ f.resolved # e.resolved =>
                 (f.resolved /\ e.cycles_alive > EvolveFallbackCycles)

\* C31: when the collaborator fails during evolve, an event with
\* cycles_alive <= 2 keeps its resolved flag, title and description; only an
\* event with cycles_alive > 2 may be switched to resolved by the fallback,
\* and the fallback never changes title or description.
C31_EvolveFallback == [][EvolveFallbackOnlyResolvesOld]_vars

\* The fallback resolved an unresolved event of three cycles.
W_C31_FallbackResolvedOldEvent ==
    /\ last.op = "evolve"
    /\ last.evolve_failed = {1}
    /\ ~last.evolved[1].before
    /\ last.evolved[1].after
    /\ world.events[1].cycles_alive = EvolveFallbackCycles + 1

\* ------------------------------------------------------------------------
\* The resolved and spawned counters
\* ------------------------------------------------------------------------
\* C32: in every reachable state of a GameSession the resolved counter is at
\* most the spawned counter (each event counting at most once), for any
\* sequence of end_meeting and time_skip calls, also when an end_meeting
\* selects an event that is already resolved.
CE_C32_ResolvedWithinSpawned == resolved <= spawned

\* ------------------------------------------------------------------------
\* What a session never changes about its countries
\* ------------------------------------------------------------------------
\* The part of a world that is fixed at creation: the country codes, each
\* leader's code, name, age and traits and the keys of each relationship map.
IdentityOf(w) ==
    [c \in DOMAIN w.countries |->
        [code |-> w.countries[c].code,
         leader_code |-> w.countries[c].leader.code,
         name |-> w.countries[c].leader.name,
         age |-> w.countries[c].leader.age,
         traits |-> w.countries[c].leader.traits,
         partners |-> DOMAIN w.countries[c].relationships]]

\* Every value of the outcomes is of the type end_meeting computes with.
WellTyped(outcomes) ==
    /\ \A i \in DOMAIN outcomes.stat_changes :
          LET ch == outcomes.stat_changes[i].changes
          IN /\ ch.wellformed
             /\ \A v \in {ch.econ, ch.war, ch.pop} : v.k # "bad"
    /\ \A i \in DOMAIN outcomes.relationship_changes :
          LET ch == outcomes.relationship_changes[i]
          IN ch.wellformed /\ ch.delta.k = "num"

\* The outcomes hold a stat entry for an unknown country and relationship
\* entries with an unknown first member, an unknown second member and a
\* self pair.
NamesStrangers(outcomes) ==
    /\ \E i \in DOMAIN outcomes.stat_changes :
          outcomes.stat_changes[i].key \notin Countries
    /\ \E i, j, k \in DOMAIN outcomes.relationship_changes :
          LET rc == outcomes.relationship_changes
          IN /\ rc[i].a \notin Countries
             /\ rc[j].a \in Countries /\ rc[j].b \notin Countries
             /\ rc[k].a \in Countries /\ rc[k].a = rc[k].b

\* C33: after the session is created the set of country codes, each leader's
\* code, name, age and traits and the key set of every relationship map never
\* change under conduct_round, end_meeting and time_skip; entries of the
\* outcomes that name an unknown country or a self pair create nothing and
\* raise nothing: end_meeting raises only on outcomes that are ill-typed.
C33_CountryIdentityFixed ==
    /\ [][IdentityOf(world') = IdentityOf(world)]_vars
    /\ [](last.op = "end_meeting" /\ last.raised => ~WellTyped(last.outcomes))

\* An end_meeting returned after outcomes that name unknown countries and a
\* self pair.
W_C33_StrangersIgnored ==
    /\ last.op = "end_meeting"
    /\ ~last.raised
    /\ ~last.analysis_failed
    /\ NamesStrangers(last.outcomes)

\* ------------------------------------------------------------------------
\* The console engine: agent-engine/main.py
\* ------------------------------------------------------------------------
\* A Moderator is the record [world, leaders, spawned, resolved, transcript]:
\* leaders maps a code to LeaderAgent.memory, a list of (role, text) pairs,
\* and transcript holds the lines of Moderator._log.

\* What llm.invoke does in one call: it raises, or it returns text that
\* extract_json rejects, or text that holds the JSON object d.
LlmRaises == [kind |-> "raise", d |-> <<>>]
LlmGarbage == [kind |-> "garbage", d |-> <<>>]
LlmJson(d) == [kind |-> "json", d |-> d]

\* the exception of a collaborator call that raised
LLMError == "llm.invoke raised"

main_TRAIT_NAMES == {"honesty", "ambition", "empathy", "diplomacy", "ruthlessness"}

\* Event of main.py
main_Event(eid, title, description, e_type) ==
    [eid |-> eid, title |-> title, description |-> description,
     e_type |-> e_type, cycles_alive |-> 0, resolved |-> FALSE]

\* generate_leader of main.py for the draws draw = [trait, age, econ, war,
\* pop, number]; the bio is what the collaborator returned.
main_generate_leader(code, draw) ==
    [code |-> code,
     name |-> "Leader_" \o code \o "_" \o ToString(draw.number),
     age |-> draw.age,
     traits |-> [t \in main_TRAIT_NAMES |-> draw.trait],
     econ_power |-> draw.econ,
     war_power |-> draw.war,
     population |-> draw.pop * PopUnit,
     backstory |-> "bio"]

\* init_world of main.py: the relationship weight of a pair is stored on
\* both sides.
main_init_world(n, draws, weights) ==
    [countries |->
        [c \in CodesOf(n) |->
            [code |-> c,
             leader |-> main_generate_leader(c, draws[c]),
             relationships |->
                [o \in CodesOf(n) \ {c} |->
                    weights[<<Min2(CodeIndex(c), CodeIndex(o)),
                              Max2(CodeIndex(c), CodeIndex(o))>>]]]],
     events |-> <<>>,
     meeting_number |-> 0]

\* Moderator.__init__
Moderator(w) ==
    [world |-> w,
     leaders |-> [c \in DOMAIN w.countries |-> <<>>],
     spawned |-> 0,
     resolved |-> 0,
     transcript |-> <<>>]

\* self.leaders.items(): the codes in insertion order
LeaderOrder(m) == CodeSeq(Cardinality(DOMAIN m.leaders))

\* for _ in range(3) of EventAgent.generate
GenerateAttempts == 3

\* The attempts k.. of EventAgent.generate.  invoke is called outside the
\* try block, so a call that raises leaves generate; a reply that is no
\* JSON, lacks a key or repeats an active title is dropped.
\* Returns [raised, none, event].
RECURSIVE GenerateTry(_, _, _)
GenerateTry(exist, replies, k) ==
    IF k > GenerateAttempts
    THEN [raised |-> FALSE, none |-> TRUE, event |-> <<>>, error |-> Absent]
    ELSE LET r == replies[k]
         IN IF r.kind = "raise"
            THEN [raised |-> TRUE, none |-> TRUE, event |-> <<>>,
                  error |-> LLMError]
            ELSE IF r.kind = "json"
                    /\ {"eid", "title", "description", "e_type"}
                            \subseteq DOMAIN r.d
                    /\ Lower(r.d.title) \notin exist
            THEN [raised |-> FALSE, none |-> FALSE, error |-> Absent,
                  event |-> main_Event(r.d.eid, r.d.title, r.d.description,
                                       r.d.e_type)]
            ELSE GenerateTry(exist, replies, k + 1)

\* EventAgent.generate of main.py.  gen = [replies, pick]: the replies of
\* the collaborator and the country random.choice picks; random.choice
\* raises IndexError on a world without countries.
\* Returns [raised, none, event, error]; none stands for the return value
\* None.
EventAgent_generate(w, gen) ==
    IF Len(w.events) >= MAX_EVENTS
    THEN [raised |-> FALSE, none |-> TRUE, event |-> <<>>, error |-> Absent]
    ELSE LET exist == {Lower(w.events[i].title) : i \in DOMAIN w.events}
             t == GenerateTry(exist, gen.replies, 1)
         IN IF t.raised \/ ~t.none THEN t
            ELSE IF DOMAIN w.countries = {}
            THEN [raised |-> TRUE, none |-> TRUE, event |-> <<>>,
                  error |-> "IndexError"]
            ELSE [raised |-> FALSE, none |-> FALSE, error |-> Absent,
                  event |-> main_Event("E" \o ToString(Len(w.events) + 1),
                                       "Minor Incident in " \o gen.pick,
                                       "Low-impact incident.", "misc")]

\* _maybe_spawn without the test for an active event.
Moderator_maybe_spawn_Always(m, gen) ==
    LET e == EventAgent_generate(m.world, gen)
    IN IF e.raised THEN [session |-> m, raised |-> TRUE, error |-> e.error]
       ELSE IF ~e.none
       THEN [session |-> [m EXCEPT !.world.events = Append(@, e.event),
                                   !.spawned = @ + 1],
             raised |-> FALSE, error |-> Absent]
       ELSE [session |-> m, raised |-> FALSE, error |-> Absent]

\* Moderator._maybe_spawn.  Returns [session, raised, error].
Moderator_maybe_spawn(m, gen) ==
    IF Len(m.world.events) = 0
    THEN LET e == EventAgent_generate(m.world, gen)
         IN IF e.raised THEN [session |-> m, raised |-> TRUE, error |-> e.error]
            ELSE IF ~e.none
            THEN [session |-> [m EXCEPT !.world.events = Append(@, e.event),
                                        !.spawned = @ + 1],
                  raised |-> FALSE, error |-> Absent]
            ELSE [session |-> m, raised |-> FALSE, error |-> Absent]
    ELSE [session |-> m, raised |-> FALSE, error |-> Absent]

\* The leaders speak one after another: LeaderAgent.speak appends the reply
\* to the speaker's memory, the caller tells every other leader and adds a
\* line to the transcript.  st = [leaders, transcript]; speeches maps a code
\* to the reply of the collaborator.
RECURSIVE main_LeadersSpeak(_, _, _, _)
main_LeadersSpeak(st, order, speeches, i) ==
    IF i > Len(order) THEN st
    ELSE LET code == order[i]
             speech == speeches[code]
         IN main_LeadersSpeak(
               [leaders |->
                   [c \in DOMAIN st.leaders |->
                       Append(st.leaders[c],
                              IF c = code THEN <<"assistant", speech>>
                              ELSE <<"user", code \o " said: " \o speech>>)],
                transcript |-> Append(st.transcript, code \o ": " \o speech)],
               order, speeches, i + 1)

\* The player's comment of a round of meeting; a blank one is skipped.
main_PlayerTurn(st, player) ==
    IF player # ""
    THEN [leaders |-> [c \in DOMAIN st.leaders |->
                          Append(st.leaders[c], <<"user", player>>)],
          transcript |-> Append(st.transcript, "PLAYER: " \o player)]
    ELSE st

\* meeting(self, rounds=3)
MeetingRounds == 3

\* The rounds r.. of meeting.
RECURSIVE main_Rounds(_, _, _, _, _)
main_Rounds(st, order, speeches, players, r) ==
    IF r > MeetingRounds THEN st
    ELSE main_Rounds(main_PlayerTurn(main_LeadersSpeak(st, order, speeches, 1),
                                     players[r]),
                     order, speeches, players, r + 1)

\* ResolutionAgent.decide of main.py: False when the reply is no JSON or
\* has no "resolved" key.
ResolutionAgent_decide(inp) ==
    /\ inp.kind = "json"
    /\ "resolved" \in DOMAIN inp.d
    /\ inp.d.resolved = "true"

\* The resolution check of meeting and of /end-meeting: every active event
\* is put to decide, none is removed.
main_Resolve(m, decisions) ==
    LET hit == {i \in DOMAIN m.world.events :
                   /\ ResolutionAgent_decide(decisions[i])
                   /\ m.world.events[i].cycles_alive > 0}
    IN [m EXCEPT
          !.world.events = [i \in DOMAIN @ |->
                               IF i \in hit THEN [@[i] EXCEPT !.resolved = TRUE]
                               ELSE @[i]],
          !.resolved = @ + Cardinality(hit)]

\* Moderator.meeting.  Returns [session, last].
Moderator_meeting(m, gen, speeches, players, decisions) ==
    LET sp == Moderator_maybe_spawn(m, gen)
        m1 == sp.session
    IN IF sp.raised
       THEN [session |-> m1,
             last |-> [Report("Moderator.meeting") EXCEPT
                          !.raised = TRUE, !.error = sp.error]]
       ELSE IF Len(m1.world.events) = 0
       THEN [session |-> m1,
             last |-> [Report("Moderator.meeting") EXCEPT
                          !.raised = TRUE, !.error = "IndexError",
                          !.spawn = [returned |-> TRUE, events |-> <<>>]]]
       ELSE LET st == main_Rounds([leaders |-> m1.leaders, transcript |-> <<>>],
                                  LeaderOrder(m1), speeches, players, 1)
                m2 == [m1 EXCEPT !.leaders = st.leaders,
                                 !.transcript = st.transcript]
                m3 == main_Resolve(m2, decisions)
            IN [session |-> [m3 EXCEPT !.world.meeting_number = @ + 1],
                last |-> [Report("Moderator.meeting") EXCEPT
                             !.spawn = [returned |-> TRUE,
                                        events |-> m1.world.events]]]

\* EventAgent.evolve of main.py.  A reply that is no JSON changes nothing;
\* a JSON reply sets title, description and resolved, each to its old value
\* when the key is missing.  resolved is "true" or "false" when present.
EventAgent_evolve(e, inp) ==
    IF inp.kind = "json"
    THEN [e EXCEPT
            !.title = IF "title" \in DOMAIN inp.d THEN inp.d.title ELSE @,
            !.description = IF "description" \in DOMAIN inp.d
                            THEN inp.d.description ELSE @,
            !.resolved = IF "resolved" \in DOMAIN inp.d
                         THEN inp.d.resolved = "true" ELSE @]
    ELSE e

\* The evolve loop of time_skip and of /advance-time.  snapshot is
\* list(self.world.events); cur is self.world.events, each entry tagged with
\* the position its object has in the snapshot (obj); list.remove compares
\* by value.
RECURSIVE main_EvolveLoop(_, _, _, _)
main_EvolveLoop(cur, snapshot, inputs, i) ==
    IF i > Len(snapshot) THEN cur
    ELSE LET evt == EventAgent_evolve(Aged(snapshot[i]), inputs[i])
             cur1 == [k \in DOMAIN cur |->
                        IF cur[k].obj = i THEN [obj |-> i, ev |-> evt]
                        ELSE cur[k]]
             evs1 == [k \in DOMAIN cur1 |-> cur1[k].ev]
             cur2 == IF evt.resolved /\ InList(evt, evs1)
                     THEN RemoveAt(cur1, IndexOf(evs1, evt))
                     ELSE cur1
         IN main_EvolveLoop(cur2, snapshot, inputs, i + 1)

\* world.events after the evolve loop.
main_Survivors(events, inputs) ==
    LET cur == main_EvolveLoop([k \in DOMAIN events |->
                                   [obj |-> k, ev |-> events[k]]],
                               events, inputs, 1)
    IN [k \in DOMAIN cur |-> cur[k].ev]

\* SummaryAgent.consequences.  The payload is built before the collaborator
\* is called and outside the try block: it reads the attribute
\* relationships of every country's leader, and reading an attribute the
\* object does not have raises AttributeError.  A reply that is no JSON
\* gives the fallback summary.  Returns [raised, error, summary].
SummaryAgent_consequences(before, now, inp) ==
    IF \/ \E c \in DOMAIN before.countries :
             "relationships" \notin DOMAIN before.countries[c].leader
       \/ \E c \in DOMAIN now.countries :
             "relationships" \notin DOMAIN now.countries[c].leader
    THEN [raised |-> TRUE, error |-> "AttributeError", summary |-> <<>>]
    ELSE IF inp.kind = "raise"
    THEN [raised |-> TRUE, error |-> LLMError, summary |-> <<>>]
    ELSE IF inp.kind = "json"
    THEN [raised |-> FALSE, error |-> Absent, summary |-> inp.d]
    ELSE [raised |-> FALSE, error |-> Absent,
          summary |->
             [summary |-> "No major developments.",
              deltas |-> [i \in 1..Cardinality(DOMAIN now.countries) |->
                            <<CodeSeq(Cardinality(DOMAIN now.countries))[i],
                              [econ |-> 0, war |-> 0, pop |-> 0]>>],
              relations |-> <<>>]]

\* The stat loop of time_skip over summary["deltas"].items(), a list of
\* <<country, delta>> pairs; a country the world does not have raises
\* KeyError.  Returns [countries, raised].
RECURSIVE main_StatLoop(_, _, _)
main_StatLoop(countries, deltas, i) ==
    IF i > Len(deltas) THEN [countries |-> countries, raised |-> FALSE]
    ELSE LET k == deltas[i][1]
             d == deltas[i][2]
         IN IF k \notin DOMAIN countries
            THEN [countries |-> countries, raised |-> TRUE]
            ELSE main_StatLoop(
                    [countries EXCEPT
                        ![k].leader.econ_power = ClampPower(@ + d.econ),
                        ![k].leader.war_power = ClampPower(@ + d.war),
                        ![k].leader.population = ClampPop(@ + d.pop)],
                    deltas, i + 1)

\* The relationship loop of time_skip over <<a, b, delta>> triples.
RECURSIVE main_RelLoop(_, _, _)
main_RelLoop(countries, relations, i) ==
    IF i > Len(relations) THEN countries
    ELSE LET a == relations[i][1]
             b == relations[i][2]
             delta == relations[i][3]
         IN IF a \in DOMAIN countries
               /\ b \in DOMAIN countries[a].relationships
            THEN LET new_val == ClampRel(countries[a].relationships[b] + delta)
                 IN main_RelLoop(
                       [countries EXCEPT ![a].relationships[b] = new_val,
                                         ![b].relationships[a] = new_val],
                       relations, i + 1)
            ELSE main_RelLoop(countries, relations, i + 1)

\* Moderator.time_skip.  Returns [session, last].
Moderator_time_skip(m, evolveIn, sumIn, gen) ==
    LET before == m.world
        m1 == [m EXCEPT !.world.events = main_Survivors(@, evolveIn)]
        c == SummaryAgent_consequences(before, m1.world, sumIn)
        rep == Report("Moderator.time_skip")
    IN IF c.raised
       THEN [session |-> m1,
             last |-> [rep EXCEPT !.raised = TRUE, !.error = c.error]]
       ELSE IF ~({"summary", "deltas"} \subseteq DOMAIN c.summary)
       THEN [session |-> m1,
             last |-> [rep EXCEPT !.raised = TRUE, !.error = "KeyError"]]
       ELSE LET st == main_StatLoop(m1.world.countries, c.summary.deltas, 1)
                m2 == [m1 EXCEPT !.world.countries = st.countries]
            IN IF st.raised
               THEN [session |-> m2,
                     last |-> [rep EXCEPT !.raised = TRUE,
                                          !.error = "KeyError"]]
               ELSE LET rels == IF "relations" \in DOMAIN c.summary
                                THEN c.summary.relations ELSE <<>>
                        m3 == [m2 EXCEPT !.world.countries =
                                  main_RelLoop(@, rels, 1)]
                        sp == Moderator_maybe_spawn(m3, gen)
                    IN IF sp.raised
                       THEN [session |-> sp.session,
                             last |-> [rep EXCEPT !.raised = TRUE,
                                                  !.error = sp.error]]
                       ELSE [session |-> sp.session,
                             last |-> [rep EXCEPT !.spawn =
                                  [returned |-> TRUE,
                                   events |-> sp.session.world.events]]]

\* ------------------------------------------------------------------------
\* The engine's API: agent-engine/agent_api.py.  A handler that raises
\* answers 500 and keeps what it had changed.
\* ------------------------------------------------------------------------
\* POST /init
agent_api_initialize_world(n, draws, weights) ==
    [session |-> Moderator(main_init_world(n, draws, weights)),
     last |-> [Report("initialize_world") EXCEPT !.arg = n]]

\* POST /start-meeting
agent_api_start_meeting(m, gen, speeches) ==
    LET sp == Moderator_maybe_spawn(m, gen)
        m1 == sp.session
        rep == Report("start_meeting")
    IN IF sp.raised
       THEN [session |-> m1,
             last |-> [rep EXCEPT !.raised = TRUE, !.error = sp.error]]
       ELSE IF Len(m1.world.events) = 0
       THEN [session |-> m1,
             last |-> [rep EXCEPT !.raised = TRUE,
                          !.error = "No events to discuss",
                          !.spawn = [returned |-> TRUE, events |-> <<>>]]]
       ELSE LET st == main_LeadersSpeak([leaders |-> m1.leaders,
                                         transcript |-> <<>>],
                                        LeaderOrder(m1), speeches, 1)
            IN [session |-> [m1 EXCEPT !.leaders = st.leaders],
                last |-> [rep EXCEPT !.returned = st.transcript,
                             !.spawn = [returned |-> TRUE,
                                        events |-> m1.world.events]]]

\* POST /player-input: the message enters every memory before the handler
\* looks for the focus event.
agent_api_player_input(m, message, speeches) ==
    LET m1 == [m EXCEPT !.leaders =
                  [c \in DOMAIN @ |-> Append(@[c], <<"user", message>>)]]
        rep == Report("player_input")
    IN IF Len(m1.world.events) = 0
       THEN [session |-> m1,
             last |-> [rep EXCEPT !.raised = TRUE,
                                  !.error = "No active event"]]
       ELSE LET st == main_LeadersSpeak(
                         [leaders |-> m1.leaders,
                          transcript |-> <<"PLAYER: " \o message>>],
                         LeaderOrder(m1), speeches, 1)
            IN [session |-> [m1 EXCEPT !.leaders = st.leaders],
                last |-> [rep EXCEPT !.returned = st.transcript]]

\* The lines /end-meeting makes of one leader's memory.
MemoryLines(code, memory) ==
    [i \in DOMAIN memory |->
        IF memory[i][1] = "assistant" THEN code \o ": " \o memory[i][2]
        ELSE "PLAYER: " \o memory[i][2]]

\* The transcript /end-meeting makes of the memories of the leaders order[i..].
RECURSIVE AllMemoryLines(_, _, _)
AllMemoryLines(leaders_, order, i) ==
    IF i > Len(order) THEN <<>>
    ELSE MemoryLines(order[i], leaders_[order[i]])
            \o AllMemoryLines(leaders_, order, i + 1)

\* POST /end-meeting
agent_api_end_meeting(m, decisions) ==
    LET m1 == [m EXCEPT !.transcript =
                  AllMemoryLines(m.leaders, LeaderOrder(m), 1)]
        m2 == main_Resolve(m1, decisions)
    IN [session |-> [m2 EXCEPT !.world.meeting_number = @ + 1],
        last |-> [Report("end_meeting") EXCEPT
                     !.returned = m1.transcript]]

\* POST /advance-time
agent_api_advance_time(m, evolveIn, gen) ==
    LET m1 == [m EXCEPT !.world.events = main_Survivors(@, evolveIn)]
        sp == Moderator_maybe_spawn(m1, gen)
        rep == Report("advance_time")
    IN IF sp.raised
       THEN [session |-> sp.session,
             last |-> [rep EXCEPT !.raised = TRUE, !.error = sp.error]]
       ELSE [session |-> sp.session,
             last |-> [rep EXCEPT !.spawn =
                          [returned |-> TRUE,
                           events |-> sp.session.world.events]]]

\* ------------------------------------------------------------------------
\* Specification of the console engine: main() runs its meetings and time
\* skips on a world of three countries, or the API serves requests on the
\* Moderator that a POST /init with the default size made (a request before
\* the first POST /init is answered 400 and changes nothing).
\* ------------------------------------------------------------------------
MaxMemoryM == 7
MaxCyclesM == 2
MaxSpawnedM == 2
MaxMeetingsM == 1

\* for _ in range(2) of main()
MainCycles == 2

\* init_world(3) of main()
MainCountries == 3

\* num_countries of POST /init: no country, or the default
InitSizesM == {0, 3}

DrawM == [trait |-> 50, age |-> AgeMin, econ |-> 50, war |-> 50,
          pop |-> PopUnitsMin, number |-> 1]

DrawsM == [c \in CodesOf(MainCountries) |-> DrawM]

\* every pair on good terms; A and B hostile
WeightsM ==
    {[p \in Pairs(MainCountries) |-> 50],
     [p \in Pairs(MainCountries) |-> IF p = <<1, 2>> THEN 20 ELSE 50]}

CoupJson ==
    LlmJson([eid |-> "E1", title |-> "Coup", description |-> "A coup.",
             e_type |-> "conflict"])

\* a JSON object without the title key
UntitledJson == LlmJson([eid |-> "E1"])

\* the replies to the three attempts of generate: no JSON at all; an event
\* at once; an event after a reply without a title; a call that raises; a
\* call that raises after a reply that is no JSON
GenRepliesM ==
    {<<LlmGarbage, LlmGarbage, LlmGarbage>>,
     <<CoupJson, LlmGarbage, LlmGarbage>>,
     <<UntitledJson, CoupJson, LlmGarbage>>,
     <<LlmRaises, LlmGarbage, LlmGarbage>>,
     <<LlmGarbage, LlmRaises, LlmGarbage>>}

\* the countries random.choice picks: the first and the last
PicksM(w) ==
    IF DOMAIN w.countries = {} THEN {Absent}
    ELSE {"A", Alphabet[Cardinality(DOMAIN w.countries)]}

GenInputsM(w) ==
    {[replies |-> r, pick |-> c] : r \in GenRepliesM, c \in PicksM(w)}

\* no JSON; resolved; renamed and not resolved; an empty object
EvolveRepliesM ==
    {LlmGarbage,
     LlmJson([resolved |-> "true"]),
     LlmJson([title |-> "Coup", resolved |-> "false"]),
     LlmJson([description |-> "It goes on."])}

\* no JSON; resolved; not resolved; no resolved key
DecideRepliesM ==
    {LlmGarbage,
     LlmJson([resolved |-> "true"]),
     LlmJson([resolved |-> "false"]),
     LlmJson([note |-> "unclear"])}

\* no JSON; a summary with deltas for A and a change between A and B
SummaryRepliesM ==
    {LlmGarbage,
     LlmJson([summary |-> "Tensions eased.",
              deltas |-> <<<<"A", [econ |-> 60, war |-> -60, pop |-> -1]>>>>,
              relations |-> <<<<"A", "B", 70>>>>])}

SpeechesM(m) == [c \in DOMAIN m.leaders |-> "We stand firm."]

PlayerCommentsM == {"", "Please agree on a ceasefire."}

\* cycles_alive and spawned stay within the bounds
WithinM(m) ==
    /\ \A i \in DOMAIN m.world.events :
          m.world.events[i].cycles_alive < MaxCyclesM
    /\ m.spawned < MaxSpawnedM

InitM ==
    /\ game_sessions = NoSessions
    /\ in_flight = NoRequests
    /\ interface = NoInterface
    /\ \E weights \in WeightsM :
        \/ /\ pc = [at |-> "meeting", cycle |-> 1]
           /\ Holds(Moderator(main_init_world(MainCountries, DrawsM, weights)),
                    Report("main"))
        \/ /\ pc = NotRunning
           /\ LET r == agent_api_initialize_world(MainCountries, DrawsM,
                                                  weights)
              IN Holds(r.session, r.last)

\* mod.meeting() of main()
MainMeeting ==
    /\ pc.at = "meeting"
    /\ UNCHANGED <<game_sessions, in_flight, interface>>
    /\ \E gen \in GenInputsM(world) :
       \E players \in [1..MeetingRounds -> PlayerCommentsM] :
       \E decisions \in [1..1 -> DecideRepliesM] :
          LET r == Moderator_meeting(Self, gen, SpeechesM(Self), players,
                                     decisions)
          IN /\ Becomes(r)
             /\ pc' = IF r.last.raised
                      THEN [at |-> "crashed", cycle |-> pc.cycle]
                      ELSE [at |-> "time_skip", cycle |-> pc.cycle]

\* mod.time_skip() of main() and what follows it: the next turn of the
\* loop or, after the last one, final_report.
MainTimeSkip ==
    /\ pc.at = "time_skip"
    /\ UNCHANGED <<game_sessions, in_flight, interface>>
    /\ \E evolveIn \in [DOMAIN world.events -> EvolveRepliesM] :
       \E sumIn \in SummaryRepliesM :
       \E gen \in GenInputsM(world) :
          LET r == Moderator_time_skip(Self, evolveIn, sumIn, gen)
          IN IF r.last.raised
             THEN /\ Becomes(r)
                  /\ pc' = [at |-> "crashed", cycle |-> pc.cycle]
             ELSE IF pc.cycle < MainCycles
             THEN /\ Becomes(r)
                  /\ pc' = [at |-> "meeting", cycle |-> pc.cycle + 1]
             ELSE /\ Becomes([session |-> r.session,
                              last |-> [Report("final_report") EXCEPT
                                 !.verdict = final_report(r.session.resolved,
                                                          r.session.spawned)]])
                  /\ pc' = [at |-> "done", cycle |-> pc.cycle]

InitializeWorldM ==
    /\ pc = NotRunning
    /\ UNCHANGED <<game_sessions, in_flight, interface, pc>>
    /\ \E n \in InitSizesM : \E weights \in WeightsM :
          Becomes(agent_api_initialize_world(n, DrawsM, weights))

StartMeetingM ==
    /\ pc = NotRunning
    /\ UNCHANGED <<game_sessions, in_flight, interface, pc>>
    /\ WithinM(Self)
    /\ \A c \in DOMAIN leaders :
          Len(leaders[c]) + Cardinality(DOMAIN leaders) <= MaxMemoryM
    /\ \E gen \in GenInputsM(world) :
          Becomes(agent_api_start_meeting(Self, gen, SpeechesM(Self)))

PlayerInputM ==
    /\ pc = NotRunning
    /\ UNCHANGED <<game_sessions, in_flight, interface, pc>>
    /\ \A c \in DOMAIN leaders :
          Len(leaders[c]) + Cardinality(DOMAIN leaders) + 1 <= MaxMemoryM
    /\ \E message \in PlayerCommentsM \ {""} :
          Becomes(agent_api_player_input(Self, message, SpeechesM(Self)))

EndMeetingM ==
    /\ pc = NotRunning
    /\ UNCHANGED <<game_sessions, in_flight, interface, pc>>
    /\ world.meeting_number < MaxMeetingsM
    /\ \E decisions \in [DOMAIN world.events -> DecideRepliesM] :
          Becomes(agent_api_end_meeting(Self, decisions))

AdvanceTimeM ==
    /\ pc = NotRunning
    /\ UNCHANGED <<game_sessions, in_flight, interface, pc>>
    /\ WithinM(Self)
    /\ \E evolveIn \in [DOMAIN world.events -> EvolveRepliesM] :
       \E gen \in GenInputsM(world) :
          Becomes(agent_api_advance_time(Self, evolveIn, gen))

NextM ==
    \/ MainMeeting \/ MainTimeSkip
    \/ InitializeWorldM \/ StartMeetingM \/ PlayerInputM \/ EndMeetingM
    \/ AdvanceTimeM

SpecM == InitM /\ [][NextM]_vars

\* ------------------------------------------------------------------------
\* C34: in the console engine at most one event is active in every state
\* that meeting, /start-meeting, /player-input, /end-meeting, time_skip and
\* /advance-time reach; an event is added only to an empty collection; and
\* whenever _maybe_spawn returned, exactly one event was active.
\* ------------------------------------------------------------------------
AddsOnlyWhenNoneActive ==
    Len(world'.events) > Len(world.events) => Len(world.events) = 0

C34_AtMostOneActiveEvent ==
    /\ [](Len(world.events) <= 1)
    /\ [](last.spawn.returned => Len(last.spawn.events) = 1)
    /\ [][AddsOnlyWhenNoneActive]_vars

\* /advance-time removed the resolved event and _maybe_spawn replaced it.
W_C34_RespawnedAfterRemoval ==
    /\ last.op = "advance_time"
    /\ last.spawn.returned
    /\ spawned = 2
    /\ Len(world.events) = 1
    /\ world.events[1].cycles_alive = 0

\* ------------------------------------------------------------------------
\* C35: main() runs two cycles of meeting and time_skip and then
\* final_report, every time_skip running to its end, provided the calls to
\* the collaborator return: main() stops early only when such a call raised.
\* ------------------------------------------------------------------------
CE_C35_MainStopsOnlyWhenLLMFails ==
    pc.at = "crashed" => last.error = LLMError

\* ------------------------------------------------------------------------
\* The text interface: text_interface.py
\* ------------------------------------------------------------------------
\* self.world_state = None
NoWorldState == [none |-> TRUE]

\* TextInterface.__init__
TextInterface ==
    [session_id |-> Absent,
     world_state |-> NoWorldState,
     is_in_meeting |-> FALSE,
     current_round |-> 0,
     max_rounds |-> 3,
     selected_events |-> <<>>]

\* The requests the interface posts.
NewGameRequest == [NothingSent EXCEPT !.route = "new-game"]

ConductRoundRequest(ui, player_message) ==
    [route |-> "conduct-round", session_id |-> ui.session_id,
     selected_event_ids |-> ui.selected_events,
     round_num |-> ui.current_round, player_message |-> player_message]

EndMeetingRequest(ui) ==
    [NothingSent EXCEPT !.route = "end-meeting",
                        !.session_id = ui.session_id,
                        !.selected_event_ids = ui.selected_events]

TimeSkipRequest(ui) ==
    [NothingSent EXCEPT !.route = "time-skip", !.session_id = ui.session_id]

\* A method up to its requests.post: [interface, request], the fields it
\* has assigned so far and the request it sends, NothingSent when it returns
\* without sending one.
Sends(ui, q) == [interface |-> ui, request |-> q]

TextInterface_start_new_game(ui) == Sends(ui, NewGameRequest)

TextInterface_conduct_round(ui) ==
    IF ui.session_id = Absent THEN Sends(ui, NothingSent)
    ELSE Sends(ui, ConductRoundRequest(ui, ""))

TextInterface_end_meeting(ui) ==
    IF ui.session_id = Absent THEN Sends(ui, NothingSent)
    ELSE Sends(ui, EndMeetingRequest(ui))

\* start_meeting that keeps current_round as it is.
TextInterface_start_meeting_KeepsRound(ui) ==
    IF ui.session_id = Absent THEN Sends(ui, NothingSent)
    ELSE IF ui.selected_events = <<>> THEN Sends(ui, NothingSent)
    ELSE TextInterface_conduct_round([ui EXCEPT !.is_in_meeting = TRUE])

TextInterface_start_meeting(ui) ==
    IF ui.session_id = Absent THEN Sends(ui, NothingSent)
    ELSE IF ui.selected_events = <<>> THEN Sends(ui, NothingSent)
    ELSE TextInterface_conduct_round([ui EXCEPT !.is_in_meeting = TRUE,
                                                !.current_round = 1])

TextInterface_send_player_message(ui, message) ==
    IF ui.session_id = Absent \/ ~ui.is_in_meeting
    THEN Sends(ui, NothingSent)
    ELSE Sends(ui, ConductRoundRequest(ui, message))

TextInterface_next_round(ui) ==
    IF ~ui.is_in_meeting THEN Sends(ui, NothingSent)
    ELSE IF ui.current_round < ui.max_rounds
    THEN TextInterface_conduct_round([ui EXCEPT !.current_round = @ + 1])
    ELSE TextInterface_end_meeting(ui)

TextInterface_time_skip(ui) ==
    IF ui.session_id = Absent THEN Sends(ui, NothingSent)
    ELSE Sends(ui, TimeSkipRequest(ui))

\* list.remove(event_id) on a list that holds it
Without(s, x) == RemoveAt(s, IndexOf(s, x))

TextInterface_select_event(ui, event_id) ==
    IF ui.world_state = NoWorldState THEN Sends(ui, NothingSent)
    ELSE IF event_id \notin EidsOf(ui.world_state.events)
    THEN Sends(ui, NothingSent)
    ELSE IF InList(event_id, ui.selected_events)
    THEN Sends([ui EXCEPT !.selected_events = Without(@, event_id)],
               NothingSent)
    ELSE Sends([ui EXCEPT !.selected_events = Append(@, event_id)],
               NothingSent)

\* The dispatch of run() for one command line, already stripped and
\* upper-cased; arg is what follows "RESPOND " or "SELECT ".
Command(ui, command, arg) ==
    CASE command = "START" -> TextInterface_start_new_game(ui)
      [] command = "MEETING" -> TextInterface_start_meeting(ui)
      [] command = "NEXT" -> TextInterface_next_round(ui)
      [] command = "END" -> TextInterface_end_meeting(ui)
      [] command = "TIME" -> TextInterface_time_skip(ui)
      [] command = "RESPOND" -> TextInterface_send_player_message(ui, arg)
      [] command = "SELECT" -> TextInterface_select_event(ui, arg)
      [] OTHER -> Sends(ui, NothingSent)

\* What a method does with a 200 reply to its request q; data is the JSON
\* body.  Any other status and any exception of requests.post leave the
\* fields as they are.
Received(ui, q, data) ==
    CASE q.route = "new-game" ->
            [ui EXCEPT !.session_id = data.session_id,
                       !.world_state = data.world_state]
      [] q.route = "conduct-round" ->
            [ui EXCEPT !.world_state = data.world_state]
      [] q.route = "end-meeting" ->
            [ui EXCEPT !.world_state = data.world_state,
                       !.is_in_meeting = FALSE,
                       !.current_round = 0,
                       !.selected_events = <<>>]
      [] q.route = "time-skip" ->
            [ui EXCEPT !.world_state = data.world_state]
      [] OTHER -> ui

\* The server's answer to a request q that reached it: the routes of
\* server.py on the store.  inp = [clock, speakIn, analysis, decisions,
\* evolveIn] are the clock reading and the replies of the collaborators.
\* Returns [known, session_id, session, last, status, data]; known tells
\* whether a session was created or run.
Answer(known, session_id, session, rep, status, data) ==
    [known |-> known, session_id |-> session_id, session |-> session,
     last |-> rep, status |-> status, data |-> data]

Ran(session_id, r) ==
    Answer(TRUE, session_id, r.session, r.last,
           IF r.last.raised THEN 500 ELSE 200,
           [world_state |-> get_world_state(r.session)])

ServerReply(store, q, inp) ==
    IF q.route = "new-game"
    THEN LET id == SessionIdAt(inp.clock)
             s == GameSession(DrawsW, WeightsE, Script(<<>>), PicksW)
         IN Answer(TRUE, id, s,
                   [Report("new_game") EXCEPT !.generated = TRUE], 200,
                   [session_id |-> id, world_state |-> get_world_state(s)])
    ELSE IF q.session_id \notin DOMAIN store
    THEN Answer(FALSE, q.session_id, <<>>,
                refuse(store, q.route, q.session_id).last, 400, <<>>)
    ELSE LET s == store[q.session_id]
             selected == Range(q.selected_event_ids)
         IN CASE q.route = "conduct-round" ->
                    Ran(q.session_id,
                        conduct_round(s, selected, q.round_num,
                                      q.player_message, inp.speakIn))
              [] q.route = "end-meeting" ->
                    Ran(q.session_id,
                        end_meeting(s, selected, inp.analysis,
                                    inp.decisions))
              [] q.route = "time-skip" ->
                    Ran(q.session_id,
                        time_skip(s, inp.evolveIn, Script(<<>>), PicksW))

\* ------------------------------------------------------------------------
\* Specification of the text interface: the player types commands in any
\* order; a request reaches the server and the interface gets the answer
\* ("ok"), or it reaches the server and the connection breaks before the
\* answer arrives ("lost"), or it does not reach the server ("undelivered").
\* Every collaborator call of the server fails, except that evolve may
\* resolve the first event.
\* ------------------------------------------------------------------------
MaxSessionsT == 1
MaxMemoryT == 8
MaxMeetingsT == 1
MaxCyclesT == 1

OutcomesT == {"ok", "lost", "undelivered"}

\* the clock reading, in milliseconds, of the first POST /api/new-game; the
\* clock has moved on at every later one
FirstClockT == 1000

\* the ids the player selects: an event the first world has and one that
\* does not exist
SelectIdsT == {"E1", StrayEid}

\* the text after RESPOND, upper-cased by run()
MessagesT == {"WE MUST COOPERATE"}

\* the replies of the collaborators for a request to route on session s;
\* only time-skip calls evolve
InputsT(s, route) ==
    {[clock |-> 0, speakIn |-> AllSpeakFail,
      analysis |-> AnalysisFailure(ZeroNoise),
      decisions |-> [k \in 1..Len(s.world.events) |->
                        DecideFailure(HighDraw)],
      evolveIn |-> e] :
        e \in IF route = "time-skip" THEN EvolveInputsS(s.world.events)
              ELSE {<<>>}}

\* the session the interface talks to stays within the bounds
RoomT(q) ==
    \/ q.session_id \notin DOMAIN game_sessions
    \/ LET s == game_sessions[q.session_id]
       IN CASE q.route = "conduct-round" ->
                  \A c \in Codes :
                      Len(s.leaders[c]) + NumCountries + 1 <= MaxMemoryT
            [] q.route = "end-meeting" ->
                  s.world.meeting_number < MaxMeetingsT
            [] q.route = "time-skip" ->
                  \A i \in DOMAIN s.world.events :
                      s.world.events[i].cycles_alive < MaxCyclesT
            [] OTHER -> TRUE

\* The request of the method reached the server, which answered a; the
\* method finishes with the reply when the status is 200.
Landed(command, c, a, got) ==
    /\ interface' = IF got THEN Received(c.interface, c.request, a.data)
                    ELSE c.interface
    /\ game_sessions' = IF a.known
                        THEN Store(game_sessions, a.session_id, a.session)
                        ELSE game_sessions
    /\ Becomes([session |-> IF a.known THEN a.session ELSE Self,
                last |-> [a.last EXCEPT !.session_id = a.session_id,
                                        !.command = command,
                                        !.request = c.request,
                                        !.delivered = TRUE,
                                        !.reply_ok = got]])

\* The method c = [interface, request] of a command sent nothing, or its
\* request did not reach the server.
Alone(command, c) ==
    /\ interface' = c.interface
    /\ last' = [Report("run") EXCEPT !.command = command,
                                     !.request = c.request]
    /\ UNCHANGED <<world, leaders, spawned, resolved, transcript,
                   game_sessions>>

Answered(command, c, a, outcome) ==
    Landed(command, c, a, outcome = "ok" /\ a.status = 200)

Dispatched(command, c, inp, outcome) ==
    IF c.request.route = Absent \/ outcome = "undelivered"
    THEN Alone(command, c)
    ELSE Answered(command, c, ServerReply(game_sessions, c.request, inp),
                  outcome)

\* One command line: the method runs up to its request, the server answers
\* or not, and the method finishes.
Typed(command, arg, inp, outcome) ==
    Dispatched(command, Command(interface, command, arg), inp, outcome)

\* the replies of the collaborators for the request of a command
InputsFor(command, arg) ==
    LET q == Command(interface, command, arg).request
    IN IF q.session_id \in DOMAIN game_sessions
       THEN InputsT(game_sessions[q.session_id], q.route)
       ELSE InputsT(Self, q.route)

InitT ==
    /\ game_sessions = NoSessions
    /\ in_flight = NoRequests
    /\ pc = NotRunning
    /\ interface = TextInterface
    /\ Holds([world |-> WorldState, leaders |-> <<>>, spawned |-> 0,
              resolved |-> 0, transcript |-> <<>>],
             Report("run"))

StartT ==
    /\ Cardinality(DOMAIN game_sessions) < MaxSessionsT
    /\ UNCHANGED <<in_flight, pc>>
    /\ \E outcome \in OutcomesT :
          Typed("START", "",
                [clock |-> FirstClockT + Cardinality(DOMAIN game_sessions)],
                outcome)

SelectT ==
    /\ interface.world_state # NoWorldState
    /\ UNCHANGED <<in_flight, pc>>
    /\ \E event_id \in SelectIdsT :
          Typed("SELECT", event_id, [clock |-> 0], "ok")

MeetingT ==
    /\ RoomT(Command(interface, "MEETING", "").request)
    /\ UNCHANGED <<in_flight, pc>>
    /\ \E inp \in InputsFor("MEETING", "") : \E outcome \in OutcomesT :
          Typed("MEETING", "", inp, outcome)

NextT ==
    /\ RoomT(Command(interface, "NEXT", "").request)
    /\ UNCHANGED <<in_flight, pc>>
    /\ \E inp \in InputsFor("NEXT", "") : \E outcome \in OutcomesT :
          Typed("NEXT", "", inp, outcome)

RespondT ==
    /\ \E message \in MessagesT :
          /\ RoomT(Command(interface, "RESPOND", message).request)
          /\ \E inp \in InputsFor("RESPOND", message) :
             \E outcome \in OutcomesT :
                Typed("RESPOND", message, inp, outcome)
    /\ UNCHANGED <<in_flight, pc>>

EndT ==
    /\ RoomT(Command(interface, "END", "").request)
    /\ UNCHANGED <<in_flight, pc>>
    /\ \E inp \in InputsFor("END", "") : \E outcome \in OutcomesT :
          Typed("END", "", inp, outcome)

TimeT ==
    /\ RoomT(Command(interface, "TIME", "").request)
    /\ UNCHANGED <<in_flight, pc>>
    /\ \E inp \in InputsFor("TIME", "") : \E outcome \in OutcomesT :
          Typed("TIME", "", inp, outcome)

NextStepT == StartT \/ SelectT \/ MeetingT \/ NextT \/ RespondT \/ EndT \/ TimeT

SpecT == InitT /\ [][NextStepT]_vars

\* ------------------------------------------------------------------------
\* C36: in the text interface, whatever the commands and whether the
\* requests succeed or fail, current_round stays within 0..max_rounds and
\* is_in_meeting is true exactly when current_round >= 1; every conduct-round
\* request carries a round_num in 1..max_rounds; NEXT in a meeting at
\* current_round = max_rounds sends the end-meeting request and no
\* conduct-round request, leaves the meeting when the reply arrives and never
\* moves current_round beyond max_rounds; NEXT in a meeting below max_rounds
\* adds exactly 1 to current_round.
\* ------------------------------------------------------------------------
RoundWithinMeeting ==
    /\ interface.current_round \in 0..interface.max_rounds
    /\ interface.max_rounds = 3
    /\ interface.is_in_meeting <=> interface.current_round >= 1

RoundNumOfRequest ==
    last.request.route = "conduct-round"
        => last.request.round_num \in 1..interface.max_rounds

NextMovesOneRound ==
    last'.command = "NEXT" /\ interface.is_in_meeting =>
        IF interface.current_round = interface.max_rounds
        THEN /\ last'.request.route = "end-meeting"
             /\ IF last'.reply_ok
                THEN ~interface'.is_in_meeting /\ interface'.current_round = 0
                ELSE interface'.current_round = interface.current_round
        ELSE /\ interface'.current_round = interface.current_round + 1
             /\ last'.request.route = "conduct-round"
             /\ last'.request.round_num = interface'.current_round

C36_RoundCounter ==
    /\ [](RoundWithinMeeting /\ RoundNumOfRequest)
    /\ [][NextMovesOneRound]_vars

\* NEXT in the last round: the end-meeting request was answered and the
\* meeting is over, after rounds whose requests had failed.
W_C36_NextEndedMeetingAtLastRound ==
    /\ last.command = "NEXT"
    /\ last.request.route = "end-meeting"
    /\ last.reply_ok
    /\ ~interface.is_in_meeting
    /\ interface.current_round = 0
    /\ world.meeting_number = 1
    /\ Len(leaders["A"]) < 6

\* ------------------------------------------------------------------------
\* C37: in the text interface every id in selected_events is the eid of an
\* event of the world snapshot the interface holds, after any sequence of
\* START, SELECT, MEETING, NEXT, RESPOND, END and TIME.
\* ------------------------------------------------------------------------
CE_C37_SelectedAreInSnapshot ==
    Range(interface.selected_events) \subseteq
        (IF interface.world_state = NoWorldState THEN {}
         ELSE EidsOf(interface.world_state.events))

\* ------------------------------------------------------------------------
\* C38: the text interface sends an end-meeting request only while a meeting
\* is in progress: a command whose method posts to end-meeting starts with
\* is_in_meeting true.
\* ------------------------------------------------------------------------
EndMeetingSentInMeeting ==
    last'.request.route = "end-meeting" => interface.is_in_meeting

CE_C38_EndMeetingOnlyInMeeting == [][EndMeetingSentInMeeting]_vars

\* ------------------------------------------------------------------------
\* C39: in a meeting driven by the text interface a RESPOND that reaches the
\* server adds the player's line to the transcript of the session and no
\* leader utterance, so each leader speaks exactly once per round.
\* ------------------------------------------------------------------------
RespondAddsOnlyPlayerLine ==
    (/\ last'.command = "RESPOND"
     /\ last'.delivered
     /\ last'.session_id \in DOMAIN game_sessions)
    => game_sessions'[last'.session_id].transcript =
           Append(game_sessions[last'.session_id].transcript,
                  "PLAYER: " \o last'.request.player_message)

CE_C39_LeadersSpeakOncePerRound == [][RespondAddsOnlyPlayerLine]_vars

====
